---- MODULE Spec2Model ----
(***************************************************************************)
(* Verification model of tkhq/verifiable-apps (reshard).                   *)
(*                                                                         *)
(*   SpecApp    the enclave app: Cli::execute, ReshardProcessor::new and   *)
(*              the request loop around ReshardProcessor::process          *)
(*   SpecHost   the host gateway: RPC handlers, the bounded enclave queue, *)
(*              the single queue consumer and the one-shot reply channels  *)
(*   SpecHostLife the host with callers that go away, SIGTERM and the end  *)
(*              of host::listen                                            *)
(*   SpecHealth the k8s health service K8Health                            *)
(*   SpecProbe  the readiness probe task behind spawn_k8s_health_checker   *)
(*   SpecWatch  the task and the client of a K8Health::watch stream        *)
(*   SpecVerify the offline verifier reshard_verify                        *)
(*   SpecProxy  the QOS proxy between host and app                         *)
(*   SpecHostDown the host whose queue consumer has ended                  *)
(*   SpecHostFair the host under a fair scheduler                          *)
(*   SpecNames  Check and Watch side by side, for any service name         *)
(*                                                                         *)
(* External libraries (qos_core, qos_crypto, qos_p256, qos_nsm, tokio) are *)
(* modelled symbolically by the contract the code relies on.               *)
(***************************************************************************)
EXTENDS Integers, Sequences, FiniteSets, TLC

(***************************************************************************)
(* Bounds of the model.                                                    *)
(***************************************************************************)
\* largest number of members given on the command line
MaxMembers == 3
\* number of requests the enclave app serves before the model stops
MaxRequests == 3
\* number of calls of EnclaveClient::send made by the RPC handlers
MaxCalls == 14
\* how many of these calls are app health checks
MaxProbes == 1
\* number of health Check requests served by K8Health
MaxChecks == 3
\* number of calls of EnclaveClient::send in the life-cycle runs
MaxLifeCalls == 3
\* how many callers go away before their reply
MaxDrops == 1
\* number of rounds of the readiness probe task
MaxRounds == 3
\* number of statuses one Watch stream emits
MaxEmits == 3
\* longest time, in seconds, an app probe of the Watch task takes
MaxLatency == 1
\* number of requests the QOS proxy answers
MaxTrips == 2
\* number of calls of EnclaveClient::send in the runs under fairness
MaxFairCalls == 13

\* host_primitives::ENCLAVE_QUEUE_CAPACITY
ENCLAVE_QUEUE_CAPACITY == 12

VARIABLES
    \* ---- enclave app: inputs of the process (command line, build) ----
    argMode,        \* "version" | "help" | "run" | "invalid"
    mockNsmFlag,    \* --mock-nsm given
    buildFeature,   \* cargo feature of the build: "vsock" | "mock" | "none"
    thresholdArg,   \* --threshold
    membersArg,     \* --members split at ';'
    \* ---- enclave app: program state ----
    appPc,          \* position of Cli::execute / ReshardProcessor::new
    nsm,            \* the chosen NsmProvider
    shareSet,       \* the parsed ShareSet
    quorumPair, ephPair, masterSeed, manifestEnvelope, attestationDoc,
    shares,         \* shares still to be encrypted (shares.into_iter())
    memberOutputs,  \* member_outputs built so far
    signature,
    newResult,      \* what ReshardProcessor::new returned: "none" | "Ok" | Err
    processor,      \* the ReshardProcessor (self), NoProcessor before new is Ok
    socketBound,    \* SocketServer::listen has bound the socket
    \* ---- enclave app: observation ----
    served,         \* number of requests processed
    lastReq, lastResp, prevReq,
    firstBundleResp,\* the first response to a RetrieveBundle
    builtBundle,    \* the bundle assembled by ReshardProcessor::new
    failedStep,     \* the step of the precompute that failed, "none" if none
    attestCount, splitCount, signCount,
    \* ---- host gateway: program state ----
    calls,          \* per call of EnclaveClient::send: where the caller is
    nextCall,       \* the next call id
    probes,         \* number of app health checks started
    waiters,        \* messages whose queue_tx.send(..).await waits for space
    queue,          \* the mpsc channel of capacity ENCLAVE_QUEUE_CAPACITY
    receiverClosed, \* queue_rx was dropped
    consumer,       \* the queue consumer task: where it is and its queue_msg
    roundTrips,     \* the send_proxy_request calls in flight on the client
    \* ---- host gateway: observation ----
    enqLog,         \* call ids in the order they entered the queue
    sentLog,        \* call ids in the order their round-trips began
    deqCount, tripCount, fireCount,
    fullSends,      \* calls that found the queue full when they sent
    ret,            \* the last return of an RPC handler
    \* ---- health service ----
    checks,         \* per Check request: where it is, its service, the
                    \* result of its app probe and the status it returned
    nextCheck,      \* the next Check request
    \* ---- host gateway: life cycle of the server and of the callers ----
    server,         \* host::listen: "serving" | "draining" | "returned"
    sigtermSent,    \* number of times wait_for_sigterm signalled sigterm_tx
    sendersDropped, \* every clone of queue_tx has been dropped
    discards,       \* calls whose reply the consumer could not deliver
    lastSent,       \* the last round-trip: its call and what Client::send
                    \* returned
    \* ---- readiness probe task ----
    reporter,       \* the readiness status the health service reports
    probeTask,      \* the probe task: where it is, its rounds so far, the
                    \* time in seconds and the time its sleep ends
    probeHist,      \* results of its probes, newest last
    reads,          \* per round: the status a readiness Check returned in it
    \* ---- enclave app: memory ----
    residue,        \* secrets in memory that was freed without being wiped
    \* ---- offline verifier ----
    verifyIn,       \* the files at encrypted_share_path and digest_path
    verifyPc,       \* position of the verifier's CLI::execute
    verifyResult,   \* what run returned, and the exit code of the process
    \* ---- Watch stream of the health service ----
    watch,          \* the task spawned by K8Health::watch
    buffer,         \* the mpsc channel between the task and the stream
    emitted,        \* the statuses the task has sent, with their times
    client,         \* the client of the stream
    \* ---- QOS proxy in front of the app ----
    proxy,          \* the proxy's Processor::process: where it is, the
                    \* request it was given and what it made of it
    proxyLog        \* the requests the proxy has answered, oldest first

appInputs == <<argMode, mockNsmFlag, buildFeature, thresholdArg, membersArg>>
appState == <<appPc, nsm, shareSet, quorumPair, ephPair, masterSeed,
              manifestEnvelope, attestationDoc, shares, memberOutputs,
              signature, newResult, processor, socketBound>>
appObs == <<served, lastReq, lastResp, prevReq, firstBundleResp, builtBundle,
            failedStep, attestCount, splitCount, signCount>>
appVars == <<appInputs, appState, appObs>>

hostState == <<calls, nextCall, probes, waiters, queue, receiverClosed,
               consumer, roundTrips>>
hostObs == <<enqLog, sentLog, deqCount, tripCount, fireCount, fullSends, ret>>
hostVars == <<hostState, hostObs>>

healthVars == <<checks, nextCheck>>

lifeVars == <<server, sigtermSent, sendersDropped, discards, lastSent>>
taskVars == <<reporter, probeTask, probeHist, reads>>
memVars == <<residue>>
verifyVars == <<verifyIn, verifyPc, verifyResult>>
watchVars == <<watch, buffer, emitted, client>>
proxyVars == <<proxy, proxyLog>>
moreVars == <<memVars, verifyVars, watchVars, proxyVars>>
extVars == <<lifeVars, taskVars, moreVars>>

vars == <<appVars, hostVars, healthVars, extVars>>

(***************************************************************************)
(* Symbolic values of the external cryptographic library.                  *)
(***************************************************************************)
None == [t |-> "none"]
NoProcessor == [t |-> "no_processor"]

\* what one entry of --members can be: two P-256 points, a hex string that
\* is no P-256 point, and a string that is not hex
MemberArgs == {"K1", "K2", "BADPOINT", "NOTHEX"}
IsHex(s) == s # "NOTHEX"
IsP256Point(bytes) == bytes \in {"K1", "K2"}

PublicKey(pair) == [t |-> "pub", of |-> pair.name]
\* P256Pair::to_master_seed: the 32 bytes the pair was derived from
ToMasterSeed(pair) == [t |-> "seed", of |-> pair.name, len |-> 32]
\* P256Pair::from_master_seed
FromMasterSeed(seed) == [t |-> "pair", name |-> seed.of]
QosHash(envelope) == [t |-> "qos_hash", of |-> envelope]
Sha512(x) == [t |-> "sha512", of |-> x]
Encrypt(pub, share) == [t |-> "ecies", to |-> pub, plain |-> share]
Sign(pair, digest) == [t |-> "sig", by |-> pair.name, over |-> digest]
BorshVec(v) == [t |-> "borsh", of |-> v]
\* P256Public::verify(&digest, &signature) is Ok
VerifySig(pub, digest, sig) ==
    sig.t = "sig" /\ pub = [t |-> "pub", of |-> sig.by] /\ sig.over = digest
\* P256Pair::decrypt by the holder of the secret of `pub`
DecryptError == [t |-> "DecryptError"]
Decrypt(pub, encrypted) ==
    IF encrypted.t = "ecies" /\ encrypted.to = pub THEN encrypted.plain
    ELSE DecryptError
SharesGenerate(seed, n, k) ==
    [i \in 1..n |-> [t |-> "share", seed |-> seed, n |-> n, k |-> k, x |-> i]]

\* qos_crypto::shamir::shares_reconstruct on a set of shares: the secret
\* when at least k shares of one split are given, other bytes of the same
\* length otherwise
SharesReconstruct(combo) ==
    IF combo = {} THEN [t |-> "Err", seed |-> None]
    ELSE LET s == CHOOSE x \in combo : TRUE IN
         IF /\ \A x \in combo :
                  x.t = "share" /\ x.seed = s.seed /\ x.n = s.n /\ x.k = s.k
            /\ Cardinality({x.x : x \in combo}) >= s.k
         THEN [t |-> "Ok", seed |-> s.seed]
         ELSE [t |-> "Ok",
               seed |-> [t |-> "seed", of |-> "not the secret", len |-> 32]]

(***************************************************************************)
(* ReshardRequest / ReshardResponse and their borsh encoding: one byte of  *)
(* variant index followed by the fields; from_slice rejects an unknown     *)
(* index and bytes left over.                                              *)
(***************************************************************************)
RetrieveBundle == [t |-> "RetrieveBundle"]
HealthRequest == [t |-> "HealthRequest"]
DecodeError == [t |-> "DecodeError"]

BundleResponse(b) == [t |-> "Bundle", bundle |-> b]
ErrorResponse == [t |-> "Error"]
HealthResponse == [t |-> "Health"]

EncodeRequest(req) == IF req.t = "RetrieveBundle" THEN <<0>> ELSE <<1>>

DecodeRequest(bytes) ==
    IF Len(bytes) = 0 THEN DecodeError
    ELSE IF bytes[1] = 0 /\ Len(bytes) = 1 THEN RetrieveBundle
    ELSE IF bytes[1] = 1 /\ Len(bytes) = 1 THEN HealthRequest
    ELSE DecodeError

\* the payload of a Bundle stays symbolic: one element after the index byte
EncodeResponse(resp) ==
    CASE resp.t = "Bundle" -> <<0, resp.bundle>>
      [] resp.t = "Error" -> <<1>>
      [] resp.t = "Health" -> <<2>>

DecodeResponse(bytes) ==
    IF Len(bytes) = 0 THEN DecodeError
    ELSE IF bytes[1] = 0 /\ Len(bytes) = 2 THEN BundleResponse(bytes[2])
    ELSE IF bytes[1] = 1 /\ Len(bytes) = 1 THEN ErrorResponse
    ELSE IF bytes[1] = 2 /\ Len(bytes) = 1 THEN HealthResponse
    ELSE DecodeError

\* byte vectors arriving on the app socket
RequestBytes == {<<0>>, <<1>>, <<>>, <<2>>, <<1, 0>>}
Malformed(bytes) == DecodeRequest(bytes) = DecodeError


(***************************************************************************)
(* ReshardProcessor::process: decode, dispatch, encode.  The processor is  *)
(* taken by &mut self, so the operator returns the processor it leaves     *)
(* behind together with the response bytes.                                *)
(***************************************************************************)
\* variant: the decode error is unwrapped instead of answered
process_PanicsOnDecodeError(self, request) ==
    LET req == DecodeRequest(request) IN
    IF req = DecodeError
    THEN [self |-> self, response |-> <<>>, panicked |-> TRUE]
    ELSE [self |-> self,
          response |-> EncodeResponse(
              IF req = HealthRequest THEN HealthResponse
              ELSE BundleResponse(self.cached_reshard_bundle)),
          panicked |-> FALSE]

\* variant: the bundle is moved out of the processor instead of cloned
process_TakesBundle(self, request) ==
    LET req == DecodeRequest(request) IN
    IF req = DecodeError
    THEN [self |-> self, response |-> EncodeResponse(ErrorResponse),
          panicked |-> FALSE]
    ELSE IF req = HealthRequest
    THEN [self |-> self, response |-> EncodeResponse(HealthResponse),
          panicked |-> FALSE]
    ELSE [self |-> [cached_reshard_bundle |-> None],
          response |-> EncodeResponse(BundleResponse(self.cached_reshard_bundle)),
          panicked |-> FALSE]

process(self, request) ==
    LET req == DecodeRequest(request) IN
    IF req = DecodeError
    THEN [self |-> self, response |-> EncodeResponse(ErrorResponse),
          panicked |-> FALSE]
    ELSE [self |-> self,
          response |-> EncodeResponse(
              IF req = HealthRequest THEN HealthResponse
              ELSE BundleResponse(self.cached_reshard_bundle)),
          panicked |-> FALSE]

(***************************************************************************)
(* Results of ReshardProcessor::new and what Cli::execute does with them:  *)
(* unwrap_or_else(|e| panic!(..)) lets only Ok reach SocketServer::listen. *)
(***************************************************************************)
Ok == [t |-> "Ok", msg |-> "", alias |-> <<>>]
Err(msg) == [t |-> "Err", msg |-> msg, alias |-> <<>>]
ErrFor(msg, alias) == [t |-> "Err", msg |-> msg, alias |-> alias]
NotReturned == [t |-> "none", msg |-> "", alias |-> <<>>]

\* variant: the error of the precompute is logged and the server started
AfterNew_IgnoresErr(result) == "listen"

AfterNew(result) == IF result.t = "Ok" THEN "listen" ELSE "panicked"

\* ReshardProcessor::new returns Err(e) from the step `step`
NewFails(step, e) ==
    /\ newResult' = e
    /\ failedStep' = step
    /\ appPc' = AfterNew(e)

(***************************************************************************)
(* ReshardOpts::share_set                                                  *)
(***************************************************************************)
Alias(i) == <<"reshard-", i>>

\* variant: a threshold of one is accepted
ThresholdInRange_AllowsOne(threshold, n) == ~(threshold < 1 \/ threshold > n)

ThresholdInRange(threshold, n) == ~(threshold < 2 \/ threshold > n)

\* variant: the members are numbered from the last to the first
ParsedMembers_Reversed(pub_keys) ==
    [i \in 1..Len(pub_keys) |->
        [alias |-> Alias(Len(pub_keys) + 1 - i), pub_key |-> pub_keys[i]]]

ParsedMembers(pub_keys) ==
    [i \in 1..Len(pub_keys) |-> [alias |-> Alias(i), pub_key |-> pub_keys[i]]]

NoShareSet == [threshold |-> 0, members |-> <<>>]

(***************************************************************************)
(* The host gateway before any call: host::listen has created the queue    *)
(* and spawned the consumer.                                               *)
(***************************************************************************)
CallIds == 1..MaxCalls
NoMsg == [request |-> None, response_tx |-> 0]
NoReturn == [id |-> 0, handler |-> "none", fired_by |-> 0, result |-> None]

HostIdle ==
    /\ calls = [id \in CallIds |-> "idle"]
    /\ nextCall = 1
    /\ probes = 0
    /\ waiters = {}
    /\ queue = <<>>
    /\ receiverClosed = FALSE
    /\ consumer = [at |-> "recv", queue_msg |-> NoMsg]
    /\ roundTrips = {}
    /\ enqLog = <<>> /\ sentLog = <<>>
    /\ deqCount = [id \in CallIds |-> 0]
    /\ tripCount = [id \in CallIds |-> 0]
    /\ fireCount = [id \in CallIds |-> 0]
    /\ fullSends = {}
    /\ ret = NoReturn

(***************************************************************************)
(* The health service before any Check request.                            *)
(***************************************************************************)
CheckIds == 1..MaxChecks
NoCheck == [at |-> "idle", service |-> "", probe |-> None, status |-> "none"]

HealthIdle ==
    /\ checks = [id \in CheckIds |-> NoCheck]
    /\ nextCheck = 1

\* host::listen is serving and no round-trip was made
NoSent == [id |-> 0, sent |-> [t |-> "none", bytes |-> <<>>]]

LifeIdle ==
    /\ server = "serving"
    /\ sigtermSent = 0
    /\ sendersDropped = FALSE
    /\ discards = <<>>
    /\ lastSent = NoSent

\* the probe task before its first probe
TaskIdle ==
    /\ reporter = "Unknown"
    /\ probeTask = [at |-> "probe", rounds |-> 0, clock |-> 0, due |-> 0]
    /\ probeHist = <<>>
    /\ reads = [r \in 0..MaxRounds |-> "none"]

\* the offline verifier has not been started
NoVerifyIn == [encrypted_share |-> None, digest |-> None]
NoVerifyResult == [t |-> "none", exit |-> -1]
VerifyIdle ==
    /\ verifyIn = NoVerifyIn
    /\ verifyPc = "start"
    /\ verifyResult = NoVerifyResult

\* no Watch was requested
NoWatch ==
    [at |-> "idle", service |-> "", clock |-> 0, begun |-> 0, due |-> 0,
     rounds |-> 0, pending |-> "none", probe |-> None, failed |-> FALSE]
NoClient == [gone |-> FALSE, received |-> 0, emits_at_gone |-> 0]
WatchIdle ==
    /\ watch = NoWatch
    /\ buffer = <<>>
    /\ emitted = <<>>
    /\ client = NoClient

\* the proxy waits for a request
NoProxy ==
    [at |-> "idle", request |-> <<>>, origin |-> None, forwarded |-> <<>>,
     response |-> <<>>, cause |-> "none"]
ProxyIdle ==
    /\ proxy = NoProxy
    /\ proxyLog = <<>>

MoreIdle == residue = {} /\ VerifyIdle /\ WatchIdle /\ ProxyIdle

ExtIdle == LifeIdle /\ TaskIdle /\ MoreIdle

(***************************************************************************)
(* The enclave app, SpecApp.                                               *)
(***************************************************************************)
MemberLists == UNION {[1..n -> MemberArgs] : n \in 1..MaxMembers}

AppInit ==
    /\ argMode \in {"version", "help", "run", "invalid"}
    /\ mockNsmFlag \in BOOLEAN
    /\ buildFeature \in {"vsock", "mock", "none"}
    /\ thresholdArg \in 0..(MaxMembers + 1)
    /\ membersArg \in MemberLists
    \* the other options are not read unless the app runs
    /\ argMode # "run" =>
           /\ mockNsmFlag = FALSE /\ buildFeature = "none"
           /\ thresholdArg = 2 /\ membersArg = <<"K1", "K2">>
    /\ appPc = "start"
    /\ nsm = "unset"
    /\ shareSet = NoShareSet
    /\ quorumPair = None /\ ephPair = None /\ masterSeed = None
    /\ manifestEnvelope = None /\ attestationDoc = None
    /\ shares = <<>> /\ memberOutputs = <<>> /\ signature = None
    /\ newResult = NotReturned
    /\ processor = NoProcessor
    /\ socketBound = FALSE
    /\ served = 0
    /\ lastReq = <<>> /\ lastResp = <<>> /\ prevReq = <<>>
    /\ firstBundleResp = <<>>
    /\ builtBundle = None
    /\ failedStep = "none"
    /\ attestCount = 0 /\ splitCount = 0 /\ signCount = 0
    /\ HostIdle
    /\ HealthIdle
    /\ ExtIdle

\* Cli::execute: ReshardOpts::new, then the version / help / run branches
ParseArgs ==
    /\ appPc = "start"
    /\ appPc' = CASE argMode = "invalid" -> "panicked"
                  [] argMode \in {"version", "help"} -> "exited"
                  [] OTHER -> "select_nsm"
    /\ UNCHANGED <<appInputs, nsm, shareSet, quorumPair, ephPair, masterSeed,
                   manifestEnvelope, attestationDoc, shares, memberOutputs,
                   signature, newResult, processor, socketBound, appObs>>
    /\ UNCHANGED <<hostVars, healthVars, extVars>>

\* variant: the hardware NSM is used when the mock cannot be
SelectNsm_FallsBack ==
    /\ appPc = "select_nsm"
    /\ nsm' = IF mockNsmFlag /\ buildFeature = "mock" THEN "MockNsm" ELSE "Nsm"
    /\ appPc' = "share_set"
    /\ UNCHANGED <<appInputs, shareSet, quorumPair, ephPair, masterSeed,
                   manifestEnvelope, attestationDoc, shares, memberOutputs,
                   signature, newResult, processor, socketBound, appObs>>
    /\ UNCHANGED <<hostVars, healthVars, extVars>>

\* Cli::execute: the choice of the NsmProvider
SelectNsm ==
    /\ appPc = "select_nsm"
    /\ IF mockNsmFlag
       THEN IF buildFeature = "mock"
            THEN nsm' = "MockNsm" /\ appPc' = "share_set"
            ELSE nsm' = nsm /\ appPc' = "panicked"
       ELSE nsm' = "Nsm" /\ appPc' = "share_set"
    /\ UNCHANGED <<appInputs, shareSet, quorumPair, ephPair, masterSeed,
                   manifestEnvelope, attestationDoc, shares, memberOutputs,
                   signature, newResult, processor, socketBound, appObs>>
    /\ UNCHANGED <<hostVars, healthVars, extVars>>

\* ReshardOpts::share_set, evaluated as an argument of ReshardProcessor::new
ShareSetParse ==
    /\ appPc = "share_set"
    /\ IF /\ \A i \in 1..Len(membersArg) : IsHex(membersArg[i])
          /\ ThresholdInRange(thresholdArg, Len(membersArg))
       THEN /\ shareSet' = [threshold |-> thresholdArg,
                            members |-> ParsedMembers(membersArg)]
            /\ appPc' = "get_quorum_key"
       ELSE /\ shareSet' = shareSet
            /\ appPc' = "panicked"
    /\ UNCHANGED <<appInputs, nsm, quorumPair, ephPair, masterSeed,
                   manifestEnvelope, attestationDoc, shares, memberOutputs,
                   signature, newResult, processor, socketBound, appObs>>
    /\ UNCHANGED <<hostVars, healthVars, extVars>>


(***************************************************************************)
(* ReshardProcessor::new, one action per fallible step, in source order.   *)
(* A call into an external library that returns a Result may fail.         *)
(***************************************************************************)
GetQuorumKey ==
    /\ appPc = "get_quorum_key"
    /\ \E ok \in BOOLEAN :
         IF ok
         THEN /\ quorumPair' = [t |-> "pair", name |-> "quorum"]
              /\ appPc' = "get_ephemeral_key"
              /\ UNCHANGED <<newResult, failedStep>>
         ELSE /\ NewFails("get_quorum_key", Err("unable to get quorum key"))
              /\ UNCHANGED quorumPair
    /\ UNCHANGED <<appInputs, nsm, shareSet, ephPair, masterSeed,
                   manifestEnvelope, attestationDoc, shares, memberOutputs,
                   signature, processor, socketBound, served, lastReq,
                   lastResp, prevReq, firstBundleResp, builtBundle,
                   attestCount, splitCount, signCount>>
    /\ UNCHANGED <<hostVars, healthVars, extVars>>

GetEphemeralKey ==
    /\ appPc = "get_ephemeral_key"
    /\ \E ok \in BOOLEAN :
         IF ok
         THEN /\ ephPair' = [t |-> "pair", name |-> "ephemeral"]
              /\ appPc' = "to_master_seed"
              /\ UNCHANGED <<newResult, failedStep>>
         ELSE /\ NewFails("get_ephemeral_key", Err("unable to get ephemeral key"))
              /\ UNCHANGED ephPair
    /\ UNCHANGED <<appInputs, nsm, shareSet, quorumPair, masterSeed,
                   manifestEnvelope, attestationDoc, shares, memberOutputs,
                   signature, processor, socketBound, served, lastReq,
                   lastResp, prevReq, firstBundleResp, builtBundle,
                   attestCount, splitCount, signCount>>
    /\ UNCHANGED <<hostVars, healthVars, extVars>>

\* quorum_pub and master_seed are taken from the quorum pair
\* variant: the seed of the ephemeral key is split
ExtractSeed_OfEphemeralKey ==
    /\ appPc = "to_master_seed"
    /\ masterSeed' = ToMasterSeed(ephPair)
    /\ appPc' = "get_manifest_envelope"
    /\ UNCHANGED <<appInputs, nsm, shareSet, quorumPair, ephPair,
                   manifestEnvelope, attestationDoc, shares, memberOutputs,
                   signature, newResult, processor, socketBound, appObs>>
    /\ UNCHANGED <<hostVars, healthVars, extVars>>

ExtractSeed ==
    /\ appPc = "to_master_seed"
    /\ masterSeed' = ToMasterSeed(quorumPair)
    /\ appPc' = "get_manifest_envelope"
    /\ UNCHANGED <<appInputs, nsm, shareSet, quorumPair, ephPair,
                   manifestEnvelope, attestationDoc, shares, memberOutputs,
                   signature, newResult, processor, socketBound, appObs>>
    /\ UNCHANGED <<hostVars, healthVars, extVars>>

GetManifestEnvelope ==
    /\ appPc = "get_manifest_envelope"
    /\ \E ok \in BOOLEAN :
         IF ok
         THEN /\ manifestEnvelope' = [t |-> "manifest_envelope"]
              /\ appPc' = "attest"
              /\ UNCHANGED <<newResult, failedStep>>
         ELSE /\ NewFails("get_manifest_envelope", Err("get_manifest_envelope failed"))
              /\ UNCHANGED manifestEnvelope
    /\ UNCHANGED <<appInputs, nsm, shareSet, quorumPair, ephPair, masterSeed,
                   attestationDoc, shares, memberOutputs,
                   signature, processor, socketBound, served, lastReq,
                   lastResp, prevReq, firstBundleResp, builtBundle,
                   attestCount, splitCount, signCount>>
    /\ UNCHANGED <<hostVars, healthVars, extVars>>

\* variant: the request carries the quorum public key
AttestationRequest_QuorumKey ==
    [t |-> "Attestation",
     user_data |-> QosHash(manifestEnvelope),
     nonce |-> None,
     public_key |-> PublicKey(quorumPair)]

\* the request handed to nsm.nsm_process_request
AttestationRequest ==
    [t |-> "Attestation",
     user_data |-> QosHash(manifestEnvelope),
     nonce |-> None,
     public_key |-> PublicKey(ephPair)]

\* what the NSM may answer: the document for the request, or another variant
NsmResponses(request) ==
    {[t |-> "Attestation", document |-> [t |-> "doc", by |-> nsm, for |-> request]],
     [t |-> "Error", document |-> None]}

Attest ==
    /\ appPc = "attest"
    /\ attestCount' = attestCount + 1
    /\ \E resp \in NsmResponses(AttestationRequest) :
         IF resp.t = "Attestation"
         THEN /\ attestationDoc' = resp.document
              /\ appPc' = "split"
              /\ UNCHANGED <<newResult, failedStep>>
         ELSE /\ NewFails("attest", Err("unexpected NSM response"))
              /\ UNCHANGED attestationDoc
    /\ UNCHANGED <<appInputs, nsm, shareSet, quorumPair, ephPair, masterSeed,
                   manifestEnvelope, shares, memberOutputs,
                   signature, processor, socketBound, served, lastReq,
                   lastResp, prevReq, firstBundleResp, builtBundle,
                   splitCount, signCount>>
    /\ UNCHANGED <<hostVars, healthVars, extVars>>

\* qos_crypto::shamir::shares_generate(&master_seed, n, k)
\* variant: the shares are made with a threshold of two
SplitThreshold_Two(new_share_set) == 2

\* let k = new_share_set.threshold as usize
SplitThreshold(new_share_set) == new_share_set.threshold

Split ==
    /\ appPc = "split"
    /\ splitCount' = splitCount + 1
    /\ \E ok \in BOOLEAN :
         IF ok
         THEN /\ shares' = SharesGenerate(masterSeed, Len(shareSet.members),
                                          SplitThreshold(shareSet))
              /\ appPc' = "encrypt"
              /\ UNCHANGED <<newResult, failedStep>>
         ELSE /\ NewFails("split", Err("shares_generate failed"))
              /\ UNCHANGED shares
    /\ UNCHANGED <<appInputs, nsm, shareSet, quorumPair, ephPair, masterSeed,
                   manifestEnvelope, attestationDoc, memberOutputs,
                   signature, processor, socketBound, served, lastReq,
                   lastResp, prevReq, firstBundleResp, builtBundle,
                   attestCount, signCount>>
    /\ UNCHANGED <<hostVars, healthVars, extVars>>


\* shares.into_iter().zip(new_share_set.members.clone()) has a next pair
\* when `done` pairs were taken
ZipHasNext(remaining, members, done) ==
    remaining # <<>> /\ done < Len(members)

\* variant: the hash is taken of the encrypted share
GenesisMemberOutput_HashOfCiphertext(member, encrypted, hash) ==
    [share_set_member |-> member,
     encrypted_quorum_key_share |-> encrypted,
     share_hash |-> Sha512(encrypted)]

\* variant: the share is stored as it is
GenesisMemberOutput_PlainShare(member, encrypted, hash) ==
    [share_set_member |-> member,
     encrypted_quorum_key_share |-> encrypted.plain,
     share_hash |-> hash]

GenesisMemberOutput(member, encrypted, hash) ==
    [share_set_member |-> member,
     encrypted_quorum_key_share |-> encrypted,
     share_hash |-> hash]

\* one iteration of the loop over (share, member)
EncryptMember ==
    /\ appPc = "encrypt"
    /\ ZipHasNext(shares, shareSet.members, Len(memberOutputs))
    /\ LET share == Head(shares)
           member == shareSet.members[Len(memberOutputs) + 1]
       IN
       /\ shares' = Tail(shares)
       /\ IF ~IsP256Point(member.pub_key)
          THEN /\ NewFails("from_bytes", ErrFor("bad member pubkey", member.alias))
               /\ UNCHANGED memberOutputs
          ELSE \E ok \in BOOLEAN :
                 IF ok
                 THEN /\ memberOutputs' = Append(memberOutputs,
                             GenesisMemberOutput(member,
                                 Encrypt(member.pub_key, share), Sha512(share)))
                      /\ appPc' = IF ZipHasNext(shares', shareSet.members,
                                                Len(memberOutputs'))
                                  THEN "encrypt" ELSE "sign"
                      /\ UNCHANGED <<newResult, failedStep>>
                 ELSE /\ NewFails("encrypt",
                                  Err("encryption of share to pub key failed"))
                      /\ UNCHANGED memberOutputs
       \* the Vec<u8> of the share is dropped at the end of the iteration,
       \* and on an early return the rest of the iterator with it; drop
       \* frees the bytes and does not overwrite them
       /\ residue' = residue \cup
              (IF failedStep' # failedStep
               THEN {shares[i] : i \in 1..Len(shares)} ELSE {share})
    /\ UNCHANGED <<appInputs, nsm, shareSet, quorumPair, ephPair, masterSeed,
                   manifestEnvelope, attestationDoc,
                   signature, processor, socketBound, served, lastReq,
                   lastResp, prevReq, firstBundleResp, builtBundle,
                   attestCount, splitCount, signCount>>
    /\ UNCHANGED <<hostVars, healthVars, lifeVars, taskVars, verifyVars,
                   watchVars, proxyVars>>

\* variant: the outputs are signed with the quorum key
SignOutputs_WithQuorumKey ==
    /\ appPc = "sign"
    /\ signCount' = signCount + 1
    /\ \E ok \in BOOLEAN :
         IF ok
         THEN /\ signature' = Sign(quorumPair, Sha512(BorshVec(memberOutputs)))
              /\ appPc' = "assemble"
              /\ UNCHANGED <<newResult, failedStep>>
         ELSE /\ NewFails("sign", Err("ephemeral sign failed"))
              /\ UNCHANGED signature
    /\ UNCHANGED <<appInputs, nsm, shareSet, quorumPair, ephPair, masterSeed,
                   manifestEnvelope, attestationDoc, shares, memberOutputs,
                   processor, socketBound, served, lastReq,
                   lastResp, prevReq, firstBundleResp, builtBundle,
                   attestCount, splitCount>>
    /\ UNCHANGED <<hostVars, healthVars, extVars>>

\* borsh::to_vec(&member_outputs), sha_512, eph_pair.sign(&digest)
SignOutputs ==
    /\ appPc = "sign"
    /\ signCount' = signCount + 1
    /\ \E ok \in BOOLEAN :
         IF ok
         THEN /\ signature' = Sign(ephPair, Sha512(BorshVec(memberOutputs)))
              /\ appPc' = "assemble"
              /\ UNCHANGED <<newResult, failedStep>>
         ELSE /\ NewFails("sign", Err("ephemeral sign failed"))
              /\ UNCHANGED signature
    /\ UNCHANGED <<appInputs, nsm, shareSet, quorumPair, ephPair, masterSeed,
                   manifestEnvelope, attestationDoc, shares, memberOutputs,
                   processor, socketBound, served, lastReq,
                   lastResp, prevReq, firstBundleResp, builtBundle,
                   attestCount, splitCount>>
    /\ UNCHANGED <<hostVars, healthVars, extVars>>

ReshardBundle ==
    [quorum_public_key |-> PublicKey(quorumPair),
     attestation_doc |-> attestationDoc,
     manifest_envelope |-> manifestEnvelope,
     member_outputs |-> memberOutputs,
     signature |-> signature]

\* ReshardProcessor::new returns Ok(Self { cached_reshard_bundle })
Assemble ==
    /\ appPc = "assemble"
    /\ processor' = [cached_reshard_bundle |-> ReshardBundle]
    /\ builtBundle' = ReshardBundle
    /\ newResult' = Ok
    /\ appPc' = AfterNew(Ok)
    /\ UNCHANGED <<appInputs, nsm, shareSet, quorumPair, ephPair, masterSeed,
                   manifestEnvelope, attestationDoc, shares, memberOutputs,
                   signature, socketBound, served, lastReq,
                   lastResp, prevReq, firstBundleResp, failedStep,
                   attestCount, splitCount, signCount>>
    /\ UNCHANGED <<hostVars, healthVars, extVars>>

\* Cli::execute: SocketServer::listen(opts.addr(), processor).expect(..)
Listen ==
    /\ appPc = "listen"
    /\ \E ok \in BOOLEAN :
         IF ok
         THEN socketBound' = TRUE /\ appPc' = "listening"
         ELSE socketBound' = FALSE /\ appPc' = "panicked"
    /\ UNCHANGED <<appInputs, nsm, shareSet, quorumPair, ephPair, masterSeed,
                   manifestEnvelope, attestationDoc, shares, memberOutputs,
                   signature, newResult, processor, appObs>>
    /\ UNCHANGED <<hostVars, healthVars, extVars>>

\* variant: the bundle is computed on request instead of served from the cache
Process_RerunsCeremony ==
    /\ appPc = "listening"
    /\ served < MaxRequests
    /\ \E request \in RequestBytes :
         LET out == process(processor, request)
             again == IF DecodeRequest(request) = RetrieveBundle THEN 1 ELSE 0
         IN
         /\ processor' = out.self
         /\ appPc' = "listening"
         /\ lastReq' = request
         /\ lastResp' = out.response
         /\ prevReq' = lastReq
         /\ firstBundleResp' = firstBundleResp
         /\ attestCount' = attestCount + again
         /\ splitCount' = splitCount + again
         /\ signCount' = signCount + again
    /\ served' = served + 1
    /\ UNCHANGED <<appInputs, nsm, shareSet, quorumPair, ephPair, masterSeed,
                   manifestEnvelope, attestationDoc, shares, memberOutputs,
                   signature, newResult, socketBound, builtBundle, failedStep>>
    /\ UNCHANGED <<hostVars, healthVars, extVars>>

\* the socket server hands one request to ReshardProcessor::process
Process ==
    /\ appPc = "listening"
    /\ served < MaxRequests
    /\ \E request \in RequestBytes :
         LET out == process(processor, request) IN
         /\ processor' = out.self
         /\ appPc' = IF out.panicked THEN "panicked" ELSE "listening"
         /\ lastReq' = request
         /\ lastResp' = out.response
         /\ prevReq' = lastReq
         /\ firstBundleResp' =
                IF firstBundleResp = <<>> /\ DecodeRequest(request) = RetrieveBundle
                THEN out.response ELSE firstBundleResp
    /\ served' = served + 1
    /\ UNCHANGED <<appInputs, nsm, shareSet, quorumPair, ephPair, masterSeed,
                   manifestEnvelope, attestationDoc, shares, memberOutputs,
                   signature, newResult, socketBound, builtBundle, failedStep,
                   attestCount, splitCount, signCount>>
    /\ UNCHANGED <<hostVars, healthVars, extVars>>

AppNext ==
    \/ ParseArgs \/ SelectNsm \/ ShareSetParse
    \/ GetQuorumKey \/ GetEphemeralKey \/ ExtractSeed \/ GetManifestEnvelope
    \/ Attest \/ Split \/ EncryptMember \/ SignOutputs \/ Assemble
    \/ Listen \/ Process

SpecApp == AppInit /\ [][AppNext]_vars


(***************************************************************************)
(* The host gateway, SpecHost.                                             *)
(***************************************************************************)
\* tonic::Status and the Result<_, Status> the host passes around
Status(code) == [t |-> "Err", code |-> code, value |-> None]
OkOf(v) == [t |-> "Ok", code |-> "Ok", value |-> v]

\* qos_core ProtocolMsg on the wire: the variant, then its data
ProxyRequest(data) == <<"ProxyRequest", data>>
ProxyResponse(data) == <<"ProxyResponse", data>>
ProtocolMsgVariants ==
    {"ProxyRequest", "ProxyResponse", "LiveAttestationDocRequest",
     "LiveAttestationDocResponse"}

ProtocolMsgTryFromSlice(bytes) ==
    IF Len(bytes) = 0 \/ bytes[1] \notin ProtocolMsgVariants THEN DecodeError
    ELSE [t |-> bytes[1], data |-> IF Len(bytes) >= 2 THEN bytes[2] ELSE <<>>]

\* the enclave app the host talks to has finished its precompute
ReadyProcessor ==
    [cached_reshard_bundle |->
        [quorum_public_key |-> PublicKey([name |-> "quorum"]),
         attestation_doc |-> [t |-> "doc"],
         manifest_envelope |-> [t |-> "manifest_envelope"],
         member_outputs |-> <<>>,
         signature |-> [t |-> "sig"]]]

\* Processor::process of the QOS proxy: unwrap ProxyRequest, forward the
\* data to the app, wrap the app's answer in ProxyResponse
ProxyProcess(request) ==
    LET msg_req == ProtocolMsgTryFromSlice(request) IN
    ProxyResponse(process(processor, msg_req.data).response)

\* what client.send(&encoded_qos_request) can return: the proxy's answer,
\* a socket error or timeout, or any other bytes (the socket is untrusted)
ClientSendResults(encoded_qos_request) ==
    {[t |-> "Ok", bytes |-> ProxyProcess(encoded_qos_request)],
     [t |-> "Err", bytes |-> <<>>],
     [t |-> "Ok", bytes |-> <<"??">>],
     [t |-> "Ok", bytes |-> <<"LiveAttestationDocResponse">>],
     [t |-> "Ok", bytes |-> ProxyResponse(<<7>>)],
     [t |-> "Ok", bytes |-> ProxyResponse(EncodeResponse(ErrorResponse))]}

\* variant: a socket error is reported as Unavailable
send_proxy_request_SocketErrUnavailable(sent) ==
    IF sent.t = "Err" THEN Status("Unavailable")
    ELSE LET qos_response == ProtocolMsgTryFromSlice(sent.bytes) IN
         IF qos_response = DecodeError THEN Status("Internal")
         ELSE IF qos_response.t # "ProxyResponse" THEN Status("Internal")
         ELSE LET response == DecodeResponse(qos_response.data) IN
              IF response = DecodeError THEN Status("Internal")
              ELSE OkOf(response)

\* send_proxy_request after client.send returned `sent`
send_proxy_request(sent) ==
    IF sent.t = "Err" THEN Status("Internal")
    ELSE LET qos_response == ProtocolMsgTryFromSlice(sent.bytes) IN
         IF qos_response = DecodeError THEN Status("Internal")
         ELSE IF qos_response.t # "ProxyResponse" THEN Status("Internal")
         ELSE LET response == DecodeResponse(qos_response.data) IN
              IF response = DecodeError THEN Status("Internal")
              ELSE OkOf(response)

\* serde_json::to_string(&*bundle)
JsonToString(bundle) == [t |-> "json", of |-> bundle]

\* variant: every error of the enclave client is reported as Internal
retrieve_reshard_ErrAsInternal(sent) ==
    IF sent.t = "Err" THEN Status("Internal")
    ELSE IF sent.value.t # "Bundle" THEN Status("Internal")
    ELSE OkOf([reshard_bundle |-> JsonToString(sent.value.bundle)])

\* Host::retrieve_reshard after self.enclave.send(..).await returned `sent`
retrieve_reshard(sent) ==
    IF sent.t = "Err" THEN sent
    ELSE IF sent.value.t # "Bundle" THEN Status("Internal")
    ELSE OkOf([reshard_bundle |-> JsonToString(sent.value.bundle)])

\* Health::app_health_check after self.enclave.send(..).await returned `sent`
app_health_check(sent) ==
    IF sent.t = "Err" THEN sent
    ELSE IF sent.value # HealthResponse THEN Status("Internal")
    ELSE OkOf([code |-> 200])

\* the handler that sent `request`, and what it returns to its caller
HandlerOf(request) ==
    IF request = RetrieveBundle THEN "retrieve_reshard" ELSE "app_health_check"

HandlerReturn(request, sent) ==
    IF request = RetrieveBundle THEN retrieve_reshard(sent)
    ELSE app_health_check(sent)

\* variant: the channel takes a message whatever it holds
QueueHasRoom_Unbounded(q) == TRUE

\* the mpsc channel has room for one more message
QueueHasRoom(q) == Len(q) < ENCLAVE_QUEUE_CAPACITY

\* variant: the newest message is taken instead of the oldest
QueueRecv_Lifo(q) ==
    [queue_msg |-> q[Len(q)], rest |-> SubSeq(q, 1, Len(q) - 1)]

\* variant: the oldest message is read but left in the channel
QueueRecv_Peek(q) == [queue_msg |-> Head(q), rest |-> q]

\* queue_rx.recv(): the oldest message, and the channel without it
QueueRecv(q) == [queue_msg |-> Head(q), rest |-> Tail(q)]

\* variant: the result is sent to the caller of the next queued message
ReplyTarget_NextInQueue(queue_msg, q) ==
    IF q # <<>> THEN Head(q).response_tx ELSE queue_msg.response_tx

\* the one-shot sender the consumer fires for its queue_msg
ReplyTarget(queue_msg, q) == queue_msg.response_tx

\* variant: send_proxy_request is spawned and not awaited
ConsumerAtRecv_NoAwait == TRUE

\* the consumer is at queue_rx.recv().await: the round-trip of the previous
\* message was awaited and its result sent
ConsumerAtRecv == consumer.at = "recv"

HostInit ==
    /\ HostIdle
    /\ appPc = "listening"
    /\ processor = ReadyProcessor
    /\ socketBound = TRUE
    /\ argMode = "run" /\ mockNsmFlag = FALSE /\ buildFeature = "none"
    /\ thresholdArg = 2 /\ membersArg = <<"K1", "K2">>
    /\ nsm = "Nsm"
    /\ shareSet = NoShareSet
    /\ quorumPair = None /\ ephPair = None /\ masterSeed = None
    /\ manifestEnvelope = None /\ attestationDoc = None
    /\ shares = <<>> /\ memberOutputs = <<>> /\ signature = None
    /\ newResult = Ok
    /\ served = 0
    /\ lastReq = <<>> /\ lastResp = <<>> /\ prevReq = <<>>
    /\ firstBundleResp = <<>>
    /\ builtBundle = ReadyProcessor.cached_reshard_bundle
    /\ failedStep = "none"
    /\ attestCount = 1 /\ splitCount = 1 /\ signCount = 1
    /\ HealthIdle
    /\ ExtIdle

\* an RPC handler calls EnclaveClient::send(request): send_queue_msg makes
\* the one-shot channel and runs queue_tx.send(..).await up to its first
\* suspension
Send ==
    /\ nextCall <= MaxCalls
    /\ \E request \in {RetrieveBundle, HealthRequest} :
         LET id == nextCall
             msg == [request |-> request, response_tx |-> id]
         IN
         /\ request = HealthRequest => probes < MaxProbes
         /\ probes' = IF request = HealthRequest THEN probes + 1 ELSE probes
         /\ nextCall' = nextCall + 1
         /\ IF receiverClosed
            THEN /\ calls' = [calls EXCEPT ![id] = "done"]
                 /\ ret' = [id |-> id, handler |-> HandlerOf(request),
                            fired_by |-> 0,
                            result |-> HandlerReturn(request, Status("Unavailable"))]
                 /\ UNCHANGED <<queue, waiters, enqLog, fullSends>>
            ELSE IF QueueHasRoom(queue)
            THEN /\ queue' = Append(queue, msg)
                 /\ enqLog' = Append(enqLog, id)
                 /\ calls' = [calls EXCEPT ![id] = "waiting"]
                 /\ UNCHANGED <<waiters, fullSends, ret>>
            ELSE /\ waiters' = waiters \cup {msg}
                 /\ fullSends' = fullSends \cup {id}
                 /\ calls' = [calls EXCEPT ![id] = "blocked"]
                 /\ UNCHANGED <<queue, enqLog, ret>>
    /\ UNCHANGED <<receiverClosed, consumer, roundTrips, sentLog, deqCount,
                   tripCount, fireCount, appVars>>
    /\ UNCHANGED <<healthVars, extVars>>

\* queue_tx.send(..).await resumes: a slot of the channel became free
SendResume ==
    /\ \E msg \in waiters :
         /\ waiters' = waiters \ {msg}
         /\ IF receiverClosed
            THEN /\ calls' = [calls EXCEPT ![msg.response_tx] = "done"]
                 /\ ret' = [id |-> msg.response_tx,
                            handler |-> HandlerOf(msg.request),
                            fired_by |-> 0,
                            result |-> HandlerReturn(msg.request,
                                                     Status("Unavailable"))]
                 /\ UNCHANGED <<queue, enqLog>>
            ELSE /\ QueueHasRoom(queue)
                 /\ queue' = Append(queue, msg)
                 /\ enqLog' = Append(enqLog, msg.response_tx)
                 /\ calls' = [calls EXCEPT ![msg.response_tx] = "waiting"]
                 /\ UNCHANGED ret
    /\ UNCHANGED <<nextCall, probes, receiverClosed, consumer, roundTrips,
                   sentLog, deqCount, tripCount, fireCount, fullSends, appVars>>
    /\ UNCHANGED <<healthVars, extVars>>

\* the consumer: queue_rx.recv().await returns the oldest message and
\* send_proxy_request is started for it
ConsumerRecv ==
    /\ ConsumerAtRecv
    /\ queue # <<>>
    /\ LET queue_msg == QueueRecv(queue).queue_msg IN
       /\ queue' = QueueRecv(queue).rest
       /\ consumer' = [at |-> "send_proxy_request", queue_msg |-> queue_msg]
       /\ roundTrips' = roundTrips \cup {queue_msg}
       /\ sentLog' = Append(sentLog, queue_msg.response_tx)
       /\ deqCount' = [deqCount EXCEPT ![queue_msg.response_tx] = @ + 1]
       /\ tripCount' = [tripCount EXCEPT ![queue_msg.response_tx] = @ + 1]
    /\ UNCHANGED <<calls, nextCall, probes, waiters, receiverClosed, enqLog,
                   fireCount, fullSends, ret, appVars>>
    /\ UNCHANGED <<healthVars, extVars>>

\* oneshot::Sender::send: Err when the receiver was dropped
OneshotSend(receiver) == IF receiver = "dropped" THEN "Err" ELSE "Ok"

\* variant: the consumer stops at a failed round-trip
LoopAfter_StopsOnFailure(enclave_resp, send_result) ==
    IF enclave_resp.t = "Err" THEN "panicked" ELSE "recv"

\* variant: the consumer unwraps the result of response_tx.send
LoopAfter_UnwrapsSend(enclave_resp, send_result) ==
    IF send_result = "Err" THEN "panicked" ELSE "recv"

\* where the consumer goes at the end of the loop body: enclave_resp is
\* passed on as it is and a failed response_tx.send is only printed
LoopAfter(enclave_resp, send_result) == "recv"

\* the consumer: the round-trip ends, its result is sent on the one-shot
\* channel of queue_msg, and the caller waiting on response_rx returns
ConsumerReply ==
    /\ consumer.at = "send_proxy_request"
    /\ \E trip \in roundTrips :
       \E sent \in ClientSendResults(ProxyRequest(EncodeRequest(trip.request))) :
         LET enclave_resp == send_proxy_request(sent)
             to == ReplyTarget(consumer.queue_msg, queue)
             send_result == OneshotSend(calls[to])
             at == LoopAfter(enclave_resp, send_result)
         IN
         /\ roundTrips' = roundTrips \ {trip}
         /\ lastSent' = [id |-> trip.response_tx, sent |-> sent]
         /\ fireCount' = [fireCount EXCEPT ![to] = @ + 1]
         /\ IF send_result = "Ok"
            THEN /\ calls' = [calls EXCEPT ![to] = "done"]
                 /\ ret' = [id |-> to,
                            handler |-> HandlerOf(consumer.queue_msg.request),
                            fired_by |-> trip.response_tx,
                            result |-> HandlerReturn(consumer.queue_msg.request,
                                                     enclave_resp)]
                 /\ UNCHANGED discards
            ELSE /\ discards' = Append(discards, to)
                 /\ UNCHANGED <<calls, ret>>
         /\ consumer' = [at |-> at, queue_msg |-> NoMsg]
         \* a consumer that ends drops queue_rx
         /\ receiverClosed' = (at # "recv")
    /\ UNCHANGED <<nextCall, probes, waiters, queue, enqLog,
                   sentLog, deqCount, tripCount, fullSends, appVars>>
    /\ UNCHANGED <<server, sigtermSent, sendersDropped>>
    /\ UNCHANGED <<healthVars, taskVars, moreVars>>

HostNext == Send \/ SendResume \/ ConsumerRecv \/ ConsumerReply

SpecHost == HostInit /\ [][HostNext]_vars

(***************************************************************************)
(* The life cycle of the host, SpecHostLife: callers that go away, SIGTERM *)
(* and the end of host::listen, with a few calls only.                     *)
(***************************************************************************)
\* a handler calls EnclaveClient::send while the server has not returned
LifeSend ==
    /\ server # "returned"
    /\ nextCall <= MaxLifeCalls
    /\ Send

\* the caller of a queued or in-flight message goes away: its handler
\* future is dropped and with it response_rx
CallerDrop ==
    /\ Cardinality({id \in CallIds : calls[id] = "dropped"}) < MaxDrops
    /\ \E id \in CallIds :
         /\ calls[id] = "waiting"
         /\ calls' = [calls EXCEPT ![id] = "dropped"]
    /\ UNCHANGED <<nextCall, probes, waiters, queue, receiverClosed, consumer,
                   roundTrips, hostObs, appVars, healthVars, extVars>>

\* wait_for_sigterm: the signal arrives, sender.send(()) is called and the
\* task ends; serve_with_shutdown starts its graceful shutdown
Sigterm ==
    /\ server = "serving"
    /\ sigtermSent = 0
    /\ sigtermSent' = sigtermSent + 1
    /\ server' = "draining"
    /\ UNCHANGED <<sendersDropped, discards, lastSent>>
    /\ UNCHANGED <<appVars, hostVars, healthVars, taskVars, moreVars>>

\* serve_with_shutdown returns once the requests in progress have ended,
\* and host::listen returns
ServerReturns ==
    /\ server = "draining"
    /\ \A id \in CallIds : calls[id] \notin {"waiting", "blocked"}
    /\ server' = "returned"
    /\ UNCHANGED <<sigtermSent, sendersDropped, discards, lastSent>>
    /\ UNCHANGED <<appVars, hostVars, healthVars, taskVars, moreVars>>

\* the last owner of the EnclaveClient is dropped, and queue_tx with it
SendersDrop ==
    /\ server = "returned"
    /\ ~sendersDropped
    /\ sendersDropped' = TRUE
    /\ UNCHANGED <<server, sigtermSent, discards, lastSent>>
    /\ UNCHANGED <<appVars, hostVars, healthVars, taskVars, moreVars>>

\* Option::expect on what queue_rx.recv().await returned
RecvExpect(received) == IF received = None THEN "panicked" ELSE "send_proxy_request"

\* the consumer: queue_rx.recv().await returns None, the channel is closed
\* and empty
ConsumerRecvNone ==
    /\ ConsumerAtRecv
    /\ queue = <<>>
    /\ sendersDropped
    /\ consumer' = [at |-> RecvExpect(None), queue_msg |-> NoMsg]
    /\ receiverClosed' = TRUE
    /\ UNCHANGED <<calls, nextCall, probes, waiters, queue, roundTrips,
                   hostObs, appVars, healthVars, extVars>>

\* the process ends after host::listen returned: the runtime is shut down
\* and drops the consumer task at the await it is suspended in
RuntimeShutdown ==
    /\ server = "returned"
    /\ consumer.at \in {"recv", "send_proxy_request"}
    /\ consumer' = [at |-> "cancelled", queue_msg |-> NoMsg]
    /\ roundTrips' = {}
    /\ receiverClosed' = TRUE
    /\ UNCHANGED <<calls, nextCall, probes, waiters, queue,
                   hostObs, appVars, healthVars, extVars>>

LifeNext ==
    \/ LifeSend \/ ConsumerRecv \/ ConsumerReply \/ CallerDrop
    \/ Sigterm \/ ServerReturns \/ SendersDrop
    \/ ConsumerRecvNone \/ RuntimeShutdown

LifeInit == HostInit

SpecHostLife == LifeInit /\ [][LifeNext]_vars

(***************************************************************************)
(* The host under a fair scheduler, SpecHostFair: callers that wait for a  *)
(* slot of the full queue and callers that go away, a consumer that is     *)
(* scheduled whenever it can run, and round-trips that end (by a reply or  *)
(* by the socket timeout of enclave_client_timeout).                       *)
(***************************************************************************)
\* Host::retrieve_reshard calls EnclaveClient::send(RetrieveBundle); the
\* calls of the health check go the same way and are left out here
FairSend ==
    /\ nextCall <= MaxFairCalls
    /\ Send
    /\ probes' = probes

FairNext ==
    \/ FairSend
    \/ SendResume
    \/ ConsumerRecv
    \/ ConsumerReply
    \/ CallerDrop

FairInit == HostInit

SpecHostFair ==
    /\ FairInit
    /\ [][FairNext]_vars
    /\ WF_vars(SendResume)
    /\ WF_vars(ConsumerRecv)
    /\ WF_vars(ConsumerReply)

(***************************************************************************)
(* The host whose queue consumer ends while handlers still call            *)
(* EnclaveClient::send, SpecHostDown: the task is dropped at one of its    *)
(* awaits, and queue_rx with it.                                           *)
(***************************************************************************)
\* the messages the closed channel and the dropped task still hold
HeldMsgs ==
    {queue[i] : i \in 1..Len(queue)} \cup ({consumer.queue_msg} \ {NoMsg})

\* variant: a message is dropped and its caller is not woken
MsgDropped_Silent ==
    /\ receiverClosed
    /\ \E msg \in HeldMsgs :
         /\ queue' = SelectSeq(queue, LAMBDA m : m # msg)
         /\ consumer' = IF consumer.queue_msg = msg
                        THEN [consumer EXCEPT !.queue_msg = NoMsg]
                        ELSE consumer
    /\ UNCHANGED <<calls, ret>>
    /\ UNCHANGED <<nextCall, probes, waiters, receiverClosed, roundTrips,
                   enqLog, sentLog, deqCount, tripCount, fireCount, fullSends,
                   appVars, healthVars, extVars>>

\* the consumer task is dropped at the await it is suspended in: queue_rx
\* is dropped, which closes the channel, and a round-trip in progress is
\* given up
ReceiverDropped ==
    /\ consumer.at \in {"recv", "send_proxy_request"}
    /\ consumer' = [consumer EXCEPT !.at = "cancelled"]
    /\ roundTrips' = {}
    /\ receiverClosed' = TRUE
    /\ UNCHANGED <<calls, nextCall, probes, waiters, queue,
                   hostObs, appVars, healthVars, extVars>>

\* a message held by the closed channel or the dropped task is dropped,
\* and response_tx with it: response_rx.await of its caller returns an
\* error, which send_queue_msg maps to Internal
MsgDropped ==
    /\ receiverClosed
    /\ \E msg \in HeldMsgs :
         LET id == msg.response_tx IN
         /\ queue' = SelectSeq(queue, LAMBDA m : m # msg)
         /\ consumer' = IF consumer.queue_msg = msg
                        THEN [consumer EXCEPT !.queue_msg = NoMsg]
                        ELSE consumer
         /\ IF calls[id] = "waiting"
            THEN /\ calls' = [calls EXCEPT ![id] = "done"]
                 /\ ret' = [id |-> id, handler |-> HandlerOf(msg.request),
                            fired_by |-> 0,
                            result |-> HandlerReturn(msg.request,
                                                     Status("Internal"))]
            ELSE UNCHANGED <<calls, ret>>
    /\ UNCHANGED <<nextCall, probes, waiters, receiverClosed, roundTrips,
                   enqLog, sentLog, deqCount, tripCount, fireCount, fullSends,
                   appVars, healthVars, extVars>>

DownNext ==
    \/ LifeSend
    \/ ConsumerRecv
    \/ ConsumerReply
    \/ ReceiverDropped
    \/ MsgDropped

DownInit == HostInit

SpecHostDown == DownInit /\ [][DownNext]_vars

(***************************************************************************)
(* The QOS proxy between host and app, SpecProxy: Processor::process of    *)
(* the simulator, fed by send_proxy_request and by other bytes on the      *)
(* socket, with the app behind it.                                         *)
(***************************************************************************)
\* bytes on the enclave socket that are no ProxyRequest of the host
UntrustedBytes ==
    {<<>>, <<"??">>, <<"LiveAttestationDocRequest">>,
     <<"LiveAttestationDocResponse">>, ProxyResponse(<<1>>),
     ProxyRequest(<<2>>), ProxyRequest(<<>>)}

\* variant: the proxy forwards an empty payload
ForwardedData_Empty(msg_req) == <<>>

\* ProtocolMsg::ProxyRequest { data } => app_client.send(&data)
ForwardedData(msg_req) == msg_req.data

\* the answer to LiveAttestationDocRequest
MockAttestationDocResponse ==
    <<"LiveAttestationDocResponse", <<"MOCK_DOCUMENT">>>>

\* send_proxy_request: the request is encoded, put in a ProxyRequest and
\* sent to the proxy
ProxySendFromHost ==
    /\ proxy.at = "idle"
    /\ Len(proxyLog) < MaxTrips
    /\ \E r \in {RetrieveBundle, HealthRequest} :
         proxy' = [NoProxy EXCEPT !.at = "process", !.origin = r,
                                  !.request = ProxyRequest(EncodeRequest(r))]
    /\ UNCHANGED proxyLog
    /\ UNCHANGED <<appVars, hostVars, healthVars, lifeVars, taskVars, memVars,
                   verifyVars, watchVars>>

\* other bytes arrive at the proxy
ProxyUntrusted ==
    /\ proxy.at = "idle"
    /\ Len(proxyLog) < MaxTrips
    /\ \E bytes \in UntrustedBytes :
         proxy' = [NoProxy EXCEPT !.at = "process", !.request = bytes]
    /\ UNCHANGED proxyLog
    /\ UNCHANGED <<appVars, hostVars, healthVars, lifeVars, taskVars, memVars,
                   verifyVars, watchVars>>

\* Processor::process up to the call of the app: try_from_slice(..).expect
\* and the match on the variant
ProxyDecode ==
    /\ proxy.at = "process"
    /\ LET msg_req == ProtocolMsgTryFromSlice(proxy.request) IN
       proxy' =
         IF msg_req = DecodeError
         THEN [proxy EXCEPT !.at = "panicked", !.cause = "deserialize"]
         ELSE IF msg_req.t = "ProxyRequest"
         THEN [proxy EXCEPT !.at = "app_client_send",
                            !.forwarded = ForwardedData(msg_req)]
         ELSE IF msg_req.t = "LiveAttestationDocRequest"
         THEN [proxy EXCEPT !.at = "respond",
                            !.response = MockAttestationDocResponse]
         ELSE [proxy EXCEPT !.at = "panicked", !.cause = "unexpected"]
    /\ UNCHANGED proxyLog
    /\ UNCHANGED <<appVars, hostVars, healthVars, lifeVars, taskVars, memVars,
                   verifyVars, watchVars>>

\* app_client.send(&data).expect("Client error"): the app's answer is put
\* in a ProxyResponse, a failure of the app socket panics
ProxyAppReplies ==
    /\ proxy.at = "app_client_send"
    /\ \E ok \in BOOLEAN :
         proxy' =
           IF ok
           THEN [proxy EXCEPT
                    !.at = "respond",
                    !.response = ProxyResponse(
                        process(processor, proxy.forwarded).response)]
           ELSE [proxy EXCEPT !.at = "panicked", !.cause = "client"]
    /\ UNCHANGED proxyLog
    /\ UNCHANGED <<appVars, hostVars, healthVars, lifeVars, taskVars, memVars,
                   verifyVars, watchVars>>

\* process returns its bytes; a request of the host is answered to
\* send_proxy_request, which decodes the reply
ProxyRespond ==
    /\ proxy.at = "respond"
    /\ proxyLog' = Append(proxyLog,
          [origin |-> proxy.origin, request |-> proxy.request,
           forwarded |-> proxy.forwarded, response |-> proxy.response,
           host_result |->
              IF proxy.origin = None THEN None
              ELSE send_proxy_request([t |-> "Ok",
                                       bytes |-> proxy.response])])
    /\ proxy' = NoProxy
    /\ UNCHANGED <<appVars, hostVars, healthVars, lifeVars, taskVars, memVars,
                   verifyVars, watchVars>>

ProxyNext ==
    \/ ProxySendFromHost
    \/ ProxyUntrusted
    \/ ProxyDecode
    \/ ProxyAppReplies
    \/ ProxyRespond

ProxyInit == HostInit

SpecProxy == ProxyInit /\ [][ProxyNext]_vars

(***************************************************************************)
(* The offline verifier reshard_verify, SpecVerify.                        *)
(***************************************************************************)
\* a ciphertext with a byte changed: it no longer decrypts
Tampered(encrypted) ==
    [t |-> "ecies_tampered", to |-> encrypted.to, plain |-> encrypted.plain]

\* what the file at encrypted_share_path can hold: the share of a member
\* out of a bundle, as it was written or with a byte changed
EncryptedShareFiles ==
    LET out == {Encrypt(key, share) :
                   key \in {"K1", "K2"},
                   share \in {SharesGenerate(ToMasterSeed([name |-> "quorum"]),
                                              MaxMembers, 2)[x] :
                                  x \in 1..MaxMembers}}
    IN out \cup {Tampered(e) : e \in out}

\* what the file at digest_path can hold: the share_hash of a member output
\* or other bytes
DigestFiles ==
    {Sha512(SharesGenerate(ToMasterSeed([name |-> "quorum"]), MaxMembers, 2)[x]) :
        x \in 1..MaxMembers}
    \cup {Sha512(None)}

\* reshard_verify::run
verify_run(cfg) == [t |-> "Ok"]

\* CLI::execute: Args::parse and the Config made of the two paths
VerifyParse ==
    /\ verifyPc = "start"
    /\ \E e \in EncryptedShareFiles, d \in DigestFiles :
         verifyIn' = [encrypted_share |-> e, digest |-> d]
    /\ verifyPc' = "parsed"
    /\ UNCHANGED verifyResult
    /\ UNCHANGED <<appVars, hostVars, healthVars, lifeVars, taskVars, memVars,
                   watchVars, proxyVars>>

\* CLI::execute: run(cfg)
VerifyRun ==
    /\ verifyPc = "parsed"
    /\ verifyResult' = [t |-> verify_run(verifyIn).t, exit |-> -1]
    /\ verifyPc' = "ran"
    /\ UNCHANGED verifyIn
    /\ UNCHANGED <<appVars, hostVars, healthVars, lifeVars, taskVars, memVars,
                   watchVars, proxyVars>>

\* CLI::execute: an Err of run is printed and the process exits with 1
VerifyExit ==
    /\ verifyPc = "ran"
    /\ verifyResult' = [verifyResult EXCEPT
                            !.exit = IF verifyResult.t = "Err" THEN 1 ELSE 0]
    /\ verifyPc' = "exited"
    /\ UNCHANGED verifyIn
    /\ UNCHANGED <<appVars, hostVars, healthVars, lifeVars, taskVars, memVars,
                   watchVars, proxyVars>>

VerifyNext == VerifyParse \/ VerifyRun \/ VerifyExit

VerifyInit == HostInit

SpecVerify == VerifyInit /\ [][VerifyNext]_vars

(***************************************************************************)
(* The k8s health service K8Health<T>, SpecHealth.  T is any               *)
(* AppHealthCheckable; the host's is Health (app_health_check above).      *)
(***************************************************************************)
LIVENESS == "liveness"
READINESS == "readiness"

\* service names a HealthCheckRequest may carry
Services == {LIVENESS, READINESS, "", "other"}

\* what an app_health_check can return: what the host's Health returns for
\* each result of EnclaveClient::send, and other codes of other apps
AppHealthResults ==
    {app_health_check(sent) :
        sent \in {OkOf(HealthResponse), OkOf(ErrorResponse),
                  OkOf(BundleResponse(ReadyProcessor.cached_reshard_bundle)),
                  Status("Unavailable"), Status("Internal")}}
    \cup {OkOf([code |-> c]) : c \in {0, 503}}

\* variant: every Ok answer of the app counts as Serving
app_status_AnyOkServing(result) ==
    IF result.t = "Ok" THEN "Serving" ELSE "NotServing"

\* K8Health::app_status after app_health_check returned `result`
app_status(result) ==
    IF result.t = "Ok"
    THEN IF result.value.code = 200 THEN "Serving" ELSE "NotServing"
    ELSE "NotServing"

\* variant: liveness is answered from the app probe like readiness
CheckStart_LivenessProbes ==
    /\ nextCheck <= MaxChecks
    /\ \E service \in Services :
         checks' = [checks EXCEPT ![nextCheck] =
            IF service \in {LIVENESS, READINESS}
            THEN [at |-> "app_health_check", service |-> service,
                  probe |-> None, status |-> "none"]
            ELSE [at |-> "done", service |-> service, probe |-> None,
                  status |-> "ServiceUnknown"]]
    /\ nextCheck' = nextCheck + 1
    /\ UNCHANGED <<appVars, hostVars, extVars>>

\* K8Health::check -> k8_request up to its first suspension: liveness and
\* unknown services are answered at once, readiness awaits the app probe
CheckStart ==
    /\ nextCheck <= MaxChecks
    /\ \E service \in Services :
         checks' = [checks EXCEPT ![nextCheck] =
            CASE service = LIVENESS ->
                   [at |-> "done", service |-> service, probe |-> None,
                    status |-> "Serving"]
              [] service = READINESS ->
                   [at |-> "app_health_check", service |-> service,
                    probe |-> None, status |-> "none"]
              [] OTHER ->
                   [at |-> "done", service |-> service, probe |-> None,
                    status |-> "ServiceUnknown"]]
    /\ nextCheck' = nextCheck + 1
    /\ UNCHANGED <<appVars, hostVars, extVars>>

\* the app probe of a readiness Check returns and the Check is answered
CheckProbeReturns ==
    \E id \in CheckIds :
        /\ checks[id].at = "app_health_check"
        /\ \E result \in AppHealthResults :
             checks' = [checks EXCEPT ![id] =
                [at |-> "done", service |-> checks[id].service,
                 probe |-> result, status |-> app_status(result)]]
        /\ UNCHANGED nextCheck
    /\ UNCHANGED <<appVars, hostVars, extVars>>

HealthNext == CheckStart \/ CheckProbeReturns

\* the health service of a host that serves no other request
HealthInit == HostInit

SpecHealth == HealthInit /\ [][HealthNext]_vars

(***************************************************************************)
(* K8Health::watch, SpecWatch: the task that feeds one Watch stream and    *)
(* the client of the stream.  Time is counted in seconds from the call of  *)
(* watch; it passes while the task sleeps and, up to MaxLatency, while it  *)
(* awaits the app probe.                                                   *)
(***************************************************************************)
WATCH_STREAM_TIMEOUT_SEC == 3
STREAM_MSG_BUFFER_MAX == 16

\* variant: a failed send is ignored and the loop goes on
WatchSend_IgnoresClosed ==
    /\ watch.at = "send"
    /\ client.gone \/ Len(buffer) < STREAM_MSG_BUFFER_MAX
    /\ buffer' = IF client.gone THEN buffer ELSE Append(buffer, watch.pending)
    /\ emitted' = Append(emitted,
                     [status |-> watch.pending, probe |-> watch.probe,
                      begun |-> watch.begun, time |-> watch.clock])
    /\ watch' = [watch EXCEPT !.at = "sleep", !.rounds = @ + 1,
                              !.due = watch.clock + WATCH_STREAM_TIMEOUT_SEC]
    /\ UNCHANGED client
    /\ UNCHANGED <<appVars, hostVars, healthVars, lifeVars, taskVars, memVars,
                   verifyVars, proxyVars>>

\* variant: a request for a name that is no service probes the app
WatchRequest_ProbesUnknown ==
    /\ watch.at = "k8_request"
    /\ watch.rounds < MaxEmits
    /\ watch' =
         IF watch.service = LIVENESS
         THEN [watch EXCEPT !.at = "send", !.begun = watch.clock,
                            !.probe = None, !.pending = "Serving"]
         ELSE [watch EXCEPT !.at = "app_health_check",
                            !.begun = watch.clock, !.probe = None,
                            !.pending = "none"]
    /\ UNCHANGED <<buffer, emitted, client>>
    /\ UNCHANGED <<appVars, hostVars, healthVars, lifeVars, taskVars, memVars,
                   verifyVars, proxyVars>>

\* K8Health::watch: the channel is made, the task is spawned and the stream
\* over the receiver is returned
WatchStart ==
    /\ watch.at = "idle"
    /\ \E service \in Services :
         watch' = [NoWatch EXCEPT !.at = "k8_request", !.service = service]
    /\ UNCHANGED <<buffer, emitted, client>>
    /\ UNCHANGED <<appVars, hostVars, healthVars, lifeVars, taskVars, memVars,
                   verifyVars, proxyVars>>

\* the task's k8_request up to its first suspension, as in a Check
WatchRequest ==
    /\ watch.at = "k8_request"
    /\ watch.rounds < MaxEmits
    /\ watch' =
         CASE watch.service = LIVENESS ->
                [watch EXCEPT !.at = "send", !.begun = watch.clock,
                              !.probe = None, !.pending = "Serving"]
           [] watch.service = READINESS ->
                [watch EXCEPT !.at = "app_health_check",
                              !.begun = watch.clock, !.probe = None,
                              !.pending = "none"]
           [] OTHER ->
                [watch EXCEPT !.at = "send", !.begun = watch.clock,
                              !.probe = None, !.pending = "ServiceUnknown"]
    /\ UNCHANGED <<buffer, emitted, client>>
    /\ UNCHANGED <<appVars, hostVars, healthVars, lifeVars, taskVars, memVars,
                   verifyVars, proxyVars>>

\* the app probe of the task's readiness request returns
WatchProbeReturns ==
    /\ watch.at = "app_health_check"
    /\ \E result \in AppHealthResults :
         watch' = [watch EXCEPT !.at = "send", !.probe = result,
                                !.pending = app_status(result)]
    /\ UNCHANGED <<buffer, emitted, client>>
    /\ UNCHANGED <<appVars, hostVars, healthVars, lifeVars, taskVars, memVars,
                   verifyVars, proxyVars>>

\* tx.send(Ok(status)).await: an error (the receiver is gone) breaks the
\* loop; a full buffer suspends the task; else the status is queued and the
\* task goes to sleep for WATCH_STREAM_TIMEOUT_SEC
WatchSend ==
    /\ watch.at = "send"
    /\ client.gone \/ Len(buffer) < STREAM_MSG_BUFFER_MAX
    /\ IF client.gone
       THEN /\ watch' = [watch EXCEPT !.at = "stopped", !.failed = TRUE]
            /\ UNCHANGED <<buffer, emitted>>
       ELSE /\ buffer' = Append(buffer, watch.pending)
            /\ emitted' = Append(emitted,
                             [status |-> watch.pending, probe |-> watch.probe,
                              begun |-> watch.begun, time |-> watch.clock])
            /\ watch' = [watch EXCEPT
                            !.at = "sleep", !.rounds = @ + 1,
                            !.due = watch.clock + WATCH_STREAM_TIMEOUT_SEC]
    /\ UNCHANGED client
    /\ UNCHANGED <<appVars, hostVars, healthVars, lifeVars, taskVars, memVars,
                   verifyVars, proxyVars>>

\* a second passes, in the sleep or in the await of the app probe
WatchTick ==
    /\ \/ watch.at = "sleep" /\ watch.clock < watch.due
       \/ /\ watch.at = "app_health_check"
          /\ watch.clock - watch.begun < MaxLatency
    /\ watch' = [watch EXCEPT !.clock = @ + 1]
    /\ UNCHANGED <<buffer, emitted, client>>
    /\ UNCHANGED <<appVars, hostVars, healthVars, lifeVars, taskVars, memVars,
                   verifyVars, proxyVars>>

\* tokio::time::sleep returns and the loop starts over
WatchWake ==
    /\ watch.at = "sleep"
    /\ watch.clock = watch.due
    /\ watch' = [watch EXCEPT !.at = "k8_request"]
    /\ UNCHANGED <<buffer, emitted, client>>
    /\ UNCHANGED <<appVars, hostVars, healthVars, lifeVars, taskVars, memVars,
                   verifyVars, proxyVars>>

\* the client takes the next status off the ReceiverStream
ClientRecv ==
    /\ ~client.gone
    /\ buffer # <<>>
    /\ buffer' = Tail(buffer)
    /\ client' = [client EXCEPT !.received = @ + 1]
    /\ UNCHANGED <<watch, emitted>>
    /\ UNCHANGED <<appVars, hostVars, healthVars, lifeVars, taskVars, memVars,
                   verifyVars, proxyVars>>

\* the client disconnects: the stream and with it the receiver are dropped
ClientDisconnect ==
    /\ watch.at # "idle"
    /\ ~client.gone
    /\ client' = [client EXCEPT !.gone = TRUE,
                                !.emits_at_gone = Len(emitted)]
    /\ buffer' = <<>>
    /\ UNCHANGED <<watch, emitted>>
    /\ UNCHANGED <<appVars, hostVars, healthVars, lifeVars, taskVars, memVars,
                   verifyVars, proxyVars>>

WatchNext ==
    \/ WatchStart
    \/ WatchRequest
    \/ WatchProbeReturns
    \/ WatchSend
    \/ WatchTick
    \/ WatchWake
    \/ ClientRecv
    \/ ClientDisconnect

WatchInit == HostInit

SpecWatch == WatchInit /\ [][WatchNext]_vars

(***************************************************************************)
(* Check and Watch side by side, SpecNames: Checks for any service name    *)
(* and one Watch stream whose client stays connected, for any name that    *)
(* needs no app probe (a Watch for readiness is the subject of SpecWatch). *)
(***************************************************************************)
\* K8Health::watch for liveness or for a name that is no service
NameWatch ==
    /\ watch.at = "idle"
    /\ \E service \in Services \ {READINESS} :
         watch' = [NoWatch EXCEPT !.at = "k8_request", !.service = service]
    /\ UNCHANGED <<buffer, emitted, client>>
    /\ UNCHANGED <<appVars, hostVars, healthVars, lifeVars, taskVars, memVars,
                   verifyVars, proxyVars>>

NamesNext ==
    \/ CheckStart
    \/ CheckProbeReturns
    \/ NameWatch
    \/ WatchRequest
    \/ WatchSend
    \/ WatchTick
    \/ WatchWake

NamesInit == HostInit

SpecNames == NamesInit /\ [][NamesNext]_vars

(***************************************************************************)
(* The readiness probe task behind spawn_k8s_health_checker, SpecProbe.    *)
(* host::listen calls it; the task itself is described by the              *)
(* specification: every PROBE_INTERVAL_SEC seconds it calls                *)
(* app_health_check, translates the result (Serving iff code 200) and      *)
(* updates the readiness reporter, which a readiness Check reads.          *)
(***************************************************************************)
PROBE_INTERVAL_SEC == 5

\* one round of the task: the probe and the update of the reporter
ProbeRound ==
    /\ probeTask.at = "probe"
    /\ probeTask.rounds < MaxRounds
    /\ \E result \in AppHealthResults :
         /\ reporter' = app_status(result)
         /\ probeHist' = Append(probeHist, result)
    /\ probeTask' = [probeTask EXCEPT !.at = "sleep", !.rounds = @ + 1,
                                      !.due = probeTask.clock + PROBE_INTERVAL_SEC]
    /\ UNCHANGED reads
    /\ UNCHANGED <<appVars, hostVars, healthVars, lifeVars, moreVars>>

\* a second passes while the task sleeps
ProbeTick ==
    /\ probeTask.at = "sleep"
    /\ probeTask.clock < probeTask.due
    /\ probeTask' = [probeTask EXCEPT !.clock = @ + 1]
    /\ UNCHANGED <<reporter, probeHist, reads>>
    /\ UNCHANGED <<appVars, hostVars, healthVars, lifeVars, moreVars>>

\* the sleep of the task ends
ProbeWake ==
    /\ probeTask.at = "sleep"
    /\ probeTask.clock = probeTask.due
    /\ probeTask' = [probeTask EXCEPT !.at = "probe"]
    /\ UNCHANGED <<reporter, probeHist, reads>>
    /\ UNCHANGED <<appVars, hostVars, healthVars, lifeVars, moreVars>>

\* variant: a readiness Check probes the app itself
ReadinessCheck_ProbesOnDemand ==
    /\ probeTask.rounds < MaxRounds
    /\ \E result \in AppHealthResults :
         /\ reporter' = app_status(result)
         /\ probeHist' = Append(probeHist, result)
         /\ reads' = [reads EXCEPT ![probeTask.rounds + 1] = app_status(result)]
    /\ probeTask' = [probeTask EXCEPT !.rounds = @ + 1]
    /\ UNCHANGED <<appVars, hostVars, healthVars, lifeVars, moreVars>>

\* a Check for the readiness service reads the reporter
ReadinessCheck ==
    /\ reads' = [reads EXCEPT ![probeTask.rounds] = reporter]
    /\ UNCHANGED <<reporter, probeTask, probeHist>>
    /\ UNCHANGED <<appVars, hostVars, healthVars, lifeVars, moreVars>>

ProbeNext == ProbeRound \/ ProbeTick \/ ProbeWake \/ ReadinessCheck

ProbeInit == HostInit

SpecProbe == ProbeInit /\ [][ProbeNext]_vars

(***************************************************************************)
(* Claims about the enclave app, checked under SpecApp.                    *)
(***************************************************************************)

\* C1: the socket is bound and requests are served only after
\* ReshardProcessor::new returned Ok; when a step of the precompute failed
\* the process has aborted, the socket is not bound and nothing was served.
C1_ListenOnlyAfterNewOk ==
    /\ (socketBound \/ served > 0 \/ appPc \in {"listen", "listening"}) =>
           (newResult = Ok /\ failedStep = "none")
    /\ failedStep # "none" =>
           (appPc = "panicked" /\ newResult.t = "Err" /\ ~socketBound /\ served = 0)

\* the last fallible step of the precompute failed and the process aborted
C1_Witness ==
    failedStep = "sign" /\ appPc = "panicked" /\ ~socketBound

\* C7: a byte vector that does not decode to a ReshardRequest is answered
\* with the encoded Error response, the processor keeps running with the
\* bundle built at startup, and a HealthRequest after it is answered Health.
C7_MalformedAnsweredError ==
    /\ (served > 0 /\ Malformed(lastReq)) =>
           /\ lastResp = EncodeResponse(ErrorResponse)
           /\ appPc = "listening"
           /\ processor.cached_reshard_bundle = builtBundle
    /\ (served >= 2 /\ Malformed(prevReq)
            /\ lastReq = EncodeRequest(HealthRequest)) =>
           lastResp = EncodeResponse(HealthResponse)

\* a malformed request was answered, then a HealthRequest
C7_Witness ==
    /\ served >= 2 /\ Malformed(prevReq)
    /\ lastReq = EncodeRequest(HealthRequest)
    /\ lastResp = EncodeResponse(HealthResponse)

\* C8: once the socket is bound the processor holds the bundle built at
\* startup, every RetrieveBundle is answered Bundle(that bundle), and the
\* answer equals the first RetrieveBundle answer of the process.
C8_BundleStable ==
    socketBound =>
        /\ processor.cached_reshard_bundle = builtBundle
        /\ (served > 0 /\ DecodeRequest(lastReq) = RetrieveBundle) =>
               /\ lastResp = EncodeResponse(BundleResponse(builtBundle))
               /\ lastResp = firstBundleResp

\* the bundle was retrieved twice in a row
C8_Witness ==
    /\ served >= 2
    /\ DecodeRequest(prevReq) = RetrieveBundle
    /\ DecodeRequest(lastReq) = RetrieveBundle
    /\ lastResp = EncodeResponse(BundleResponse(builtBundle))

\* C9: the attestation request, the Shamir split and the ephemeral
\* signature happen at most once per process, each exactly once before the
\* socket is bound, and the service stays Ready with these counts whatever
\* requests it handles.
C9_CeremonyOnce ==
    /\ attestCount <= 1 /\ splitCount <= 1 /\ signCount <= 1
    /\ socketBound =>
           /\ appPc = "listening"
           /\ attestCount = 1 /\ splitCount = 1 /\ signCount = 1

\* all the requests of the run were served, two of them RetrieveBundle
C9_Witness ==
    /\ socketBound /\ served >= 2
    /\ DecodeRequest(prevReq) = RetrieveBundle
    /\ DecodeRequest(lastReq) = RetrieveBundle
    /\ attestCount = 1 /\ splitCount = 1 /\ signCount = 1


(***************************************************************************)
(* Claims about the host gateway, checked under SpecHost.                  *)
(***************************************************************************)
Range(f) == {f[i] : i \in DOMAIN f}
InQueue(id) == \E i \in 1..Len(queue) : queue[i].response_tx = id
InFlight(id) == consumer.queue_msg.response_tx = id
Accepted(id) == id \in Range(enqLog)

\* C2: a call that finds the enclave queue full (12 messages) fails at once
\* with Unavailable: it never waits for space and never enters the queue.
C2_FullQueueUnavailable ==
    /\ waiters = {}
    /\ \A id \in fullSends :
         /\ calls[id] = "done"
         /\ ~Accepted(id)
         /\ (ret.id = id => ret.result = Status("Unavailable"))

\* C3: the consumer starts the round-trips in the order the messages
\* entered the queue: the send order is a prefix of the enqueue order.
C3_Fifo ==
    /\ Len(sentLog) <= Len(enqLog)
    /\ \A i \in 1..Len(sentLog) : sentLog[i] = enqLog[i]

\* thirteen messages were sent to the enclave, after the queue had been full
C3_Witness ==
    Len(sentLog) >= ENCLAVE_QUEUE_CAPACITY + 1 /\ fullSends # {}

\* C4: at most one round-trip is in flight, it is the one of the consumer's
\* current message, and every message dequeued before it has had its result
\* sent on its reply channel.
C4_SingleFlight ==
    /\ Cardinality(roundTrips) <= 1
    /\ consumer.at = "recv" => roundTrips = {}
    /\ consumer.at # "recv" => roundTrips = {consumer.queue_msg}
    /\ \A i \in 1..Len(sentLog) :
         (i < Len(sentLog) \/ consumer.at = "recv") => fireCount[sentLog[i]] = 1

\* a round-trip is in flight while the queue behind it is full
C4_Witness ==
    Cardinality(roundTrips) = 1 /\ Len(queue) = ENCLAVE_QUEUE_CAPACITY

\* C5: a message accepted onto the queue is dequeued once, gets one
\* round-trip and has its reply channel fired once: nothing of it happened
\* while it is queued, the first two while it is in flight, all three once
\* the consumer is past it; no count ever exceeds one.
C5_ExactlyOnce ==
    \A id \in CallIds :
        LET n == <<deqCount[id], tripCount[id], fireCount[id]>> IN
        /\ Cardinality({i \in 1..Len(queue) : queue[i].response_tx = id}) <= 1
        /\ Cardinality({i \in 1..Len(enqLog) : enqLog[i] = id}) <= 1
        /\ IF ~Accepted(id) \/ InQueue(id) THEN n = <<0, 0, 0>>
           ELSE IF InFlight(id) THEN n = <<1, 1, 0>>
           ELSE n = <<1, 1, 1>>

\* a message whose round-trip failed was still answered, exactly once
C5_Witness ==
    /\ ret.id # 0 /\ ret.result.t = "Err"
    /\ deqCount[ret.id] = 1 /\ tripCount[ret.id] = 1 /\ fireCount[ret.id] = 1
    /\ queue # <<>>

\* C6: what a caller receives is the result of the round-trip made for its
\* own message.
C6_OwnResponse ==
    (ret.id # 0 /\ ret.fired_by # 0) => ret.id = ret.fired_by

\* a caller got the enclave's answer while other callers were queued
C6_Witness ==
    /\ ret.id # 0 /\ ret.id = ret.fired_by /\ ret.result.t = "Ok"
    /\ Len(queue) >= 2 /\ roundTrips # {}


(***************************************************************************)
(* Claims about the health service, checked under SpecHealth.              *)
(***************************************************************************)

\* C10: an answered readiness Check reports Serving exactly when its app
\* probe returned Ok with code 200, and NotServing for any other code and
\* for an error status; the Check is always answered with one of the two.
C10_ReadinessIffCode200 ==
    \A id \in CheckIds :
        (checks[id].at = "done" /\ checks[id].service = READINESS) =>
            /\ checks[id].status \in {"Serving", "NotServing"}
            /\ checks[id].status = "Serving" <=>
                   (checks[id].probe.t = "Ok" /\ checks[id].probe.value.code = 200)

\* readiness Checks were answered Serving after a 200, NotServing after
\* another code and NotServing after an error status
C10_Witness ==
    \E a, b, c \in CheckIds :
        /\ checks[a].service = READINESS /\ checks[a].status = "Serving"
        /\ checks[a].probe = OkOf([code |-> 200])
        /\ checks[b].service = READINESS /\ checks[b].status = "NotServing"
        /\ checks[b].probe.t = "Ok" /\ checks[b].probe.value.code = 503
        /\ checks[c].service = READINESS /\ checks[c].status = "NotServing"
        /\ checks[c].probe = Status("Unavailable")

(***************************************************************************)
(* Claims about the readiness probe task (SpecProbe).                      *)
(***************************************************************************)
IsCode200(result) == result.t = "Ok" /\ result.value.code = 200

C12_LivenessAlwaysServing ==
    \A id \in CheckIds :
        (checks[id].service = LIVENESS /\ checks[id].at # "idle") =>
            /\ checks[id].at = "done"
            /\ checks[id].status = "Serving"
            /\ checks[id].probe = None
            /\ queue = <<>> /\ waiters = {} /\ enqLog = <<>> /\ nextCall = 1

\* liveness was answered Serving after a readiness probe had failed and
\* while another readiness Check still waits for its probe
C12_Witness ==
    \E a, b, c \in CheckIds :
        /\ a < c /\ b < c
        /\ checks[a].service = READINESS /\ checks[a].status = "NotServing"
        /\ checks[a].probe = Status("Internal")
        /\ checks[b].service = READINESS /\ checks[b].at = "app_health_check"
        /\ checks[c].service = LIVENESS /\ checks[c].status = "Serving"

(***************************************************************************)
(* Claims about failed round-trips (SpecHost).                             *)
(***************************************************************************)
\* the response variant a handler expects from the app
ExpectedVariant(handler) ==
    IF handler = "retrieve_reshard" THEN "Bundle" ELSE "Health"

\* the round-trip whose client.send returned `sent` failed: a socket error
\* or timeout, a reply that is no ProtocolMsg, a reply that is no
\* ProxyResponse, app data that do not decode, or an app response that is
\* not the variant the handler expects
RoundTripFailed(handler, sent) ==
    \/ sent.t = "Err"
    \/ Len(sent.bytes) = 0
    \/ sent.bytes[1] \notin ProtocolMsgVariants
    \/ sent.bytes[1] # "ProxyResponse"
    \/ Len(sent.bytes) < 2
    \/ DecodeResponse(sent.bytes[2]) = DecodeError
    \/ DecodeResponse(sent.bytes[2]).t # ExpectedVariant(handler)

\* C13: when the round-trip made for a message fails, in any of these
\* ways, the caller waiting for it receives the status Internal
C13_FailedRoundTripInternal ==
    (ret.fired_by # 0 /\ lastSent.id = ret.id
        /\ RoundTripFailed(ret.handler, lastSent.sent)) =>
            ret.result = Status("Internal")

\* RetrieveReshard got Internal for an app response of the Error variant
C13_Witness ==
    /\ ret.fired_by # 0 /\ lastSent.id = ret.id
    /\ ret.handler = "retrieve_reshard"
    /\ lastSent.sent = [t |-> "Ok",
                        bytes |-> ProxyResponse(EncodeResponse(ErrorResponse))]
    /\ ret.result = Status("Internal")

\* C14: a failed round-trip fails only its own message: the consumer is
\* still running, the messages behind it are still queued, in their order,
\* with their callers waiting, and the consumer can dequeue the next one
C14_FailureIsolated ==
    (ret.fired_by # 0 /\ ret.result.t = "Err") =>
        /\ consumer.at \in {"recv", "send_proxy_request"}
        /\ ~receiverClosed
        /\ \A i \in 1..Len(queue) :
               /\ queue[i].response_tx = enqLog[Len(sentLog) + i]
               /\ calls[queue[i].response_tx] = "waiting"
               /\ fireCount[queue[i].response_tx] = 0
        /\ Len(enqLog) = Len(sentLog) + Len(queue)
        /\ (consumer.at = "recv" /\ queue # <<>>) => ENABLED ConsumerRecv

\* the round-trip of a message failed and the consumer now makes the
\* round-trip of the message that was enqueued right behind it
C14_Witness ==
    /\ ret.fired_by # 0 /\ ret.result.t = "Err"
    /\ consumer.at = "send_proxy_request"
    /\ Len(sentLog) >= 2
    /\ sentLog[Len(sentLog) - 1] = ret.id
    /\ \E i \in 1..(Len(enqLog) - 1) :
          enqLog[i] = ret.id /\ enqLog[i + 1] = consumer.queue_msg.response_tx

(***************************************************************************)
(* Claims about callers that go away and about shutdown (SpecHostLife).    *)
(***************************************************************************)
\* C15: when the caller of a queued or in-flight message has gone away,
\* the consumer still dequeues the message and makes its round-trip, the
\* reply it cannot deliver is discarded and returned to nobody, and the
\* consumer does not stop: it is running as long as the server has not
\* returned and can dequeue the next message
C15_DroppedCallerDiscarded ==
    /\ \A i \in 1..Len(discards) :
           LET id == discards[i] IN
           /\ calls[id] = "dropped"
           /\ deqCount[id] = 1 /\ tripCount[id] = 1 /\ fireCount[id] = 1
           /\ ret.id # id
    /\ \A id \in CallIds :
           (calls[id] = "dropped" /\ consumer.at # "cancelled"
               /\ ~InQueue(id) /\ ~InFlight(id)) => id \in Range(discards)
    /\ server # "returned" => consumer.at \in {"recv", "send_proxy_request"}
    /\ (discards # <<>> /\ consumer.at = "recv" /\ queue # <<>>) =>
           ENABLED ConsumerRecv

\* the reply to a caller that had gone away was discarded and a message
\* sent after it was answered to its caller
C15_Witness ==
    /\ discards # <<>>
    /\ ret.fired_by # 0 /\ ret.fired_by = ret.id
    /\ server = "serving"
    /\ \E i, j \in 1..Len(sentLog) :
          i < j /\ sentLog[i] = discards[1] /\ sentLog[j] = ret.id

\* C16: SIGTERM makes the handler signal the one-shot channel once and the
\* server leave serve_with_shutdown; the consumer ends its loop cleanly,
\* without a panic, when every queue sender has been dropped
C16_CleanShutdown ==
    /\ sigtermSent <= 1
    /\ sigtermSent = 1 <=> server \in {"draining", "returned"}
    /\ sendersDropped => server = "returned"
    /\ consumer.at # "panicked"

(***************************************************************************)
(* Claims about the share set and the member outputs (SpecApp).            *)
(***************************************************************************)
\* the command line asks for a run with a share set that is not valid
InvalidShareSetArgs ==
    /\ argMode = "run"
    /\ \/ thresholdArg < 2
       \/ thresholdArg > Len(membersArg)
       \/ \E i \in 1..Len(membersArg) : ~IsP256Point(membersArg[i])

\* C17: with a threshold below 2, a threshold above the number of members
\* or a member key that is no P-256 point, the process never binds the
\* socket, never has a processor or a bundle, serves nothing, and where it
\* stops it has stopped with a failure
C17_InvalidShareSetFails ==
    InvalidShareSetArgs =>
        /\ ~socketBound
        /\ processor = NoProcessor
        /\ builtBundle = None
        /\ served = 0
        /\ appPc \notin {"listen", "listening", "exited"}
        /\ ~(ENABLED AppNext) => appPc = "panicked"

\* a share set with a good threshold and a member key that is no P-256
\* point failed inside ReshardProcessor::new, after the split
C17_Witness ==
    /\ InvalidShareSetArgs
    /\ ThresholdInRange(thresholdArg, Len(membersArg))
    /\ failedStep = "from_bytes" /\ splitCount = 1
    /\ appPc = "panicked" /\ ~socketBound /\ builtBundle = None

\* the bundle's member outputs and what member i reads in entry i with
\* the secret of the key given as the i-th of --members
Outputs == builtBundle.member_outputs
DecryptedShare(i) ==
    Decrypt(membersArg[i], Outputs[i].encrypted_quorum_key_share)
\* the subsets of the members of a given size
MemberSubsets(size) ==
    {T \in SUBSET (1..Len(membersArg)) : Cardinality(T) = size}
\* the public key of the pair derived from what a subset reconstructs
ReconstructedKey(T) ==
    PublicKey(FromMasterSeed(SharesReconstruct({DecryptedShare(i) : i \in T}).seed))

\* C18: the bundle of an accepted share set of n members has n member
\* outputs; entry i names member i (alias reshard-i and the i-th key),
\* holds the i-th share of the quorum key's seed encrypted to that key and
\* the SHA-512 of that share, so the plaintext member i decrypts hashes to
\* share_hash
C18_MemberOutputsMatch ==
    builtBundle # None =>
        /\ Len(Outputs) = Len(membersArg)
        /\ \A i \in 1..Len(membersArg) :
               LET pt == DecryptedShare(i) IN
               /\ Outputs[i].share_set_member =
                      [alias |-> <<"reshard-", i>>, pub_key |-> membersArg[i]]
               /\ pt # DecryptError
               /\ pt.t = "share" /\ pt.x = i
               /\ pt.seed = ToMasterSeed(quorumPair)
               /\ Outputs[i].share_hash = Sha512(pt)

\* a bundle for three members, two of them with the same key
C18_Witness ==
    /\ builtBundle # None
    /\ membersArg = <<"K1", "K2", "K1">>
    /\ Len(Outputs) = 3
    /\ socketBound

\* C19: every subset of k of the decrypted shares reconstructs a seed of
\* 32 bytes whose key pair has the bundle's quorum_public_key
C19_ThresholdReconstructs ==
    builtBundle # None =>
        \A T \in MemberSubsets(thresholdArg) :
            LET r == SharesReconstruct({DecryptedShare(i) : i \in T}) IN
            /\ r.t = "Ok"
            /\ r.seed.len = 32
            /\ ReconstructedKey(T) = builtBundle.quorum_public_key

\* a bundle with threshold 2 for 3 members: three subsets reconstruct
C19_Witness ==
    /\ builtBundle # None
    /\ thresholdArg = 2 /\ Len(membersArg) = 3
    /\ Cardinality(MemberSubsets(thresholdArg)) = 3
    /\ \A T \in MemberSubsets(thresholdArg) :
          ReconstructedKey(T) = PublicKey(quorumPair)

\* C20: no subset of fewer than k decrypted shares yields the quorum
\* public key: reconstruction fails or gives another key
C20_BelowThresholdFails ==
    builtBundle # None =>
        \A size \in 1..(thresholdArg - 1) :
            \A T \in MemberSubsets(size) :
                LET r == SharesReconstruct({DecryptedShare(i) : i \in T}) IN
                \/ r.t = "Err"
                \/ ReconstructedKey(T) # builtBundle.quorum_public_key

\* a bundle with threshold 3: no single share and no pair of shares
\* gives the quorum key
C20_Witness ==
    /\ builtBundle # None
    /\ thresholdArg = 3 /\ Len(membersArg) = 3
    /\ \A T \in MemberSubsets(1) \cup MemberSubsets(2) :
          ReconstructedKey(T) # PublicKey(quorumPair)
    /\ ReconstructedKey({1, 2, 3}) = PublicKey(quorumPair)

(***************************************************************************)
(* Claims about the signature and the attestation (SpecApp).               *)
(***************************************************************************)
\* public keys of other pairs: a freshly generated one and the quorum key
OtherPublicKeys ==
    {[t |-> "pub", of |-> "random"], [t |-> "pub", of |-> "quorum"]}

\* C21: the bundle's signature is over SHA-512 of the borsh encoding of
\* the member_outputs of the same bundle; it verifies under the ephemeral
\* public key that was put into the attestation request and under no
\* other public key
C21_SignatureBindsOutputs ==
    builtBundle # None =>
        LET digest == Sha512(BorshVec(builtBundle.member_outputs))
            eph_pub == builtBundle.attestation_doc.for.public_key
        IN
        /\ builtBundle.signature.over = digest
        /\ VerifySig(eph_pub, digest, builtBundle.signature)
        /\ \A pub \in OtherPublicKeys :
               ~VerifySig(pub, digest, builtBundle.signature)

\* a served bundle with three member outputs and its signature
C21_Witness ==
    /\ builtBundle # None
    /\ Len(builtBundle.member_outputs) = 3
    /\ builtBundle.signature.t = "sig"
    /\ firstBundleResp # <<>>

\* C22: the attestation request carries the hash of the loaded manifest
\* envelope as user_data, no nonce and the public half of the loaded
\* ephemeral key; the document the NSM returned for it is the bundle's
\* attestation_doc and the bundle holds the same manifest envelope; after
\* any other answer of the NSM startup has failed
C22_AttestationBound ==
    /\ attestationDoc # None =>
           /\ attestationDoc.by = nsm
           /\ attestationDoc.for.t = "Attestation"
           /\ attestationDoc.for.user_data = QosHash(manifestEnvelope)
           /\ attestationDoc.for.nonce = None
           /\ attestationDoc.for.public_key = PublicKey(ephPair)
           /\ manifestEnvelope # None /\ ephPair # None
    /\ builtBundle # None =>
           /\ attestationDoc # None
           /\ builtBundle.attestation_doc = attestationDoc
           /\ builtBundle.manifest_envelope = manifestEnvelope
    /\ (attestCount = 1 /\ attestationDoc = None) =>
           /\ failedStep = "attest" /\ newResult.t = "Err"
           /\ appPc = "panicked" /\ builtBundle = None /\ ~socketBound

\* the bundle was assembled with the document of the hardware NSM
C22_Witness ==
    /\ builtBundle # None
    /\ nsm = "Nsm"
    /\ builtBundle.attestation_doc.for.public_key =
           [t |-> "pub", of |-> "ephemeral"]
    /\ socketBound

(***************************************************************************)
(* Claims about the command line and the errors of startup (SpecApp).      *)
(***************************************************************************)
\* the member the loop of ReshardProcessor::new was at when it failed
FailedMember == shareSet.members[Len(memberOutputs) + 1]

\* C24: when startup fails at a member, because its public key does not
\* parse or because encrypting its share fails, the error that
\* ReshardProcessor::new returns names the alias of that member
C24_ErrorNamesAlias ==
    failedStep \in {"from_bytes", "encrypt"} =>
        /\ newResult.t = "Err"
        /\ newResult.alias = FailedMember.alias

\* C29: --mock-nsm on a build with the vsock feature: the process loads no
\* key, requests no attestation, binds no socket and chooses no
\* attestation provider at all, and where it stops it has panicked
C29_MockNsmRefusedOnVsock ==
    (argMode = "run" /\ mockNsmFlag /\ buildFeature = "vsock") =>
        /\ nsm = "unset"
        /\ quorumPair = None /\ ephPair = None
        /\ attestCount = 0 /\ attestationDoc = None
        /\ ~socketBound /\ processor = NoProcessor
        /\ appPc \in {"start", "select_nsm", "panicked"}
        /\ ~(ENABLED AppNext) => appPc = "panicked"

\* the process has panicked at the choice of the provider, with a share
\* set that would have been accepted
C29_Witness ==
    /\ argMode = "run" /\ mockNsmFlag /\ buildFeature = "vsock"
    /\ thresholdArg = 2 /\ membersArg = <<"K1", "K2">>
    /\ appPc = "panicked" /\ nsm = "unset" /\ shareSet = NoShareSet

\* C30: the ShareSet parsed from n keys and an accepted threshold k has n
\* members in the order of --members, member i with the alias reshard-i
\* and the i-th key, aliases not empty and pairwise distinct, threshold k
C30_ShareSetParsed ==
    shareSet # NoShareSet =>
        /\ Len(shareSet.members) = Len(membersArg)
        /\ shareSet.threshold = thresholdArg
        /\ thresholdArg >= 2 /\ thresholdArg <= Len(membersArg)
        /\ \A i \in 1..Len(membersArg) :
               /\ shareSet.members[i].alias = <<"reshard-", i>>
               /\ shareSet.members[i].pub_key = membersArg[i]
               /\ shareSet.members[i].alias # <<>>
        /\ \A i, j \in 1..Len(membersArg) :
               i # j => shareSet.members[i].alias # shareSet.members[j].alias

\* three members, two of them with the same key, threshold 3
C30_Witness ==
    /\ shareSet # NoShareSet
    /\ membersArg = <<"K2", "K1", "K2">> /\ thresholdArg = 3
    /\ Len(shareSet.members) = 3
    /\ shareSet.members[3].alias = <<"reshard-", 3>>

(***************************************************************************)
(* Claims about the secrets of the enclave (SpecApp).                      *)
(***************************************************************************)
\* the kinds of value that are plaintext secrets: a key pair (its private
\* half), a master seed and a raw share
SecretKinds == {"pair", "seed", "share"}

\* the values a reader of a bundle holds without any private key; what is
\* inside a ciphertext, a hash or a signature is not among them
BundleFields(b) ==
    {b.quorum_public_key, b.attestation_doc, b.manifest_envelope, b.signature}
    \cup {b.member_outputs[i].encrypted_quorum_key_share :
             i \in 1..Len(b.member_outputs)}
    \cup {b.member_outputs[i].share_hash : i \in 1..Len(b.member_outputs)}

\* C27: every response of the processor is Health, Error or Bundle; Health
\* and Error carry nothing but their variant, and no field of a Bundle is
\* the quorum or ephemeral key pair, the master seed or a raw share
C27_NoPlaintextSecretLeaves ==
    served > 0 =>
        LET resp == DecodeResponse(lastResp) IN
        /\ resp # DecodeError
        /\ resp.t \in {"Health", "Error", "Bundle"}
        /\ resp.t # "Bundle" => Len(lastResp) = 1
        /\ resp.t = "Bundle" =>
               /\ resp.bundle = builtBundle
               /\ \A f \in BundleFields(resp.bundle) : f.t \notin SecretKinds

\* a bundle with the encrypted shares of two members was returned
C27_Witness ==
    /\ served > 0
    /\ DecodeResponse(lastResp).t = "Bundle"
    /\ Len(DecodeResponse(lastResp).bundle.member_outputs) = 2
    /\ DecodeResponse(lastResp).bundle.member_outputs[1]
           .encrypted_quorum_key_share.plain.t = "share"

(***************************************************************************)
(* Claims about a burst of calls against a stalled enclave (SpecHost).     *)
(***************************************************************************)
\* the calls of a burst of one more than the queue holds
Burst == 1..(ENCLAVE_QUEUE_CAPACITY + 1)

\* C25: when 13 calls were made and the enclave has answered none of
\* them, exactly one of the 13 has returned Unavailable and the other 12
\* are accepted, queued or in flight
C25_ExactlyOneUnavailable ==
    (nextCall = ENCLAVE_QUEUE_CAPACITY + 2
        /\ \A id \in CallIds : fireCount[id] = 0) =>
        \E id \in Burst :
            /\ calls[id] = "done"
            /\ ret.id = id /\ ret.result = Status("Unavailable")
            /\ \A other \in Burst \ {id} :
                   /\ calls[other] = "waiting"
                   /\ Accepted(other)
                   /\ InQueue(other) \/ InFlight(other)

\* C28: when the service is Ready no raw share and no master seed is
\* left in the memory of the process: every share was wiped after its
\* encryption
C28_SecretsZeroizedAtReady ==
    appPc = "listening" =>
        /\ shares = <<>>
        /\ residue = {}

(***************************************************************************)
(* Claims about the offline verifier (SpecVerify).                         *)
(***************************************************************************)
\* what the holder of the member's secret reads in the share file
VerifiedPlaintext ==
    Decrypt(verifyIn.encrypted_share.to, verifyIn.encrypted_share)

\* C23: the verifier rejects, with an error and exit code 1, an encrypted
\* share of which a byte was changed, which does not decrypt; it never
\* reports success for a share that does not decrypt or whose plaintext
\* does not hash to the share_hash
C23_TamperedShareRejected ==
    verifyPc \in {"ran", "exited"} =>
        /\ VerifiedPlaintext = DecryptError => verifyResult.t = "Err"
        /\ (VerifiedPlaintext # DecryptError
               /\ Sha512(VerifiedPlaintext) # verifyIn.digest) =>
               verifyResult.t = "Err"
        /\ (verifyPc = "exited" /\ verifyResult.t = "Err") =>
               verifyResult.exit = 1

(***************************************************************************)
(* Claims about the Watch stream (SpecWatch).                              *)
(***************************************************************************)
\* the status a Check for the service gives when the app probe, if one is
\* made, returns `probe`
CheckWouldGive(service, probe) ==
    CASE service = LIVENESS -> "Serving"
      [] service = READINESS ->
           IF IsCode200(probe) THEN "Serving" ELSE "NotServing"
      [] OTHER -> "ServiceUnknown"

SomeMemberKeyInvalid ==
    \E i \in 1..Len(membersArg) : ~IsP256Point(membersArg[i])

\* C31: the whole share set is validated before the master seed is split:
\* with a member key that is no P-256 point, shares_generate is never
\* called, no share exists and no share has been encrypted
C31_ValidationBeforeSplit ==
    (argMode = "run" /\ SomeMemberKeyInvalid) =>
        /\ splitCount = 0
        /\ shares = <<>>
        /\ memberOutputs = <<>>

(***************************************************************************)
(* Claims about the proxy envelope (SpecProxy).                            *)
(***************************************************************************)
\* C32: bytes on the enclave socket that do not decode to a known variant,
\* or decode to a variant the proxy does not expect, are answered with an
\* error and never make the proxy's processing loop panic
C32_UndecodableNeverPanics ==
    ~(proxy.at = "panicked" /\ proxy.cause \in {"deserialize", "unexpected"})

\* C33: the proxy envelope is transparent: the payload the app is given is
\* the encoded request of the host, the reply carries the app's bytes as
\* they are, and what send_proxy_request returns for a request r is the
\* response ReshardProcessor::process gives for the encoded r
C33_ProxyTransparent ==
    \A i \in 1..Len(proxyLog) :
        LET trip == proxyLog[i] IN
        trip.origin # None =>
            LET direct == process(processor, EncodeRequest(trip.origin))
            IN
            /\ trip.forwarded = EncodeRequest(trip.origin)
            /\ trip.response = ProxyResponse(direct.response)
            /\ trip.host_result = OkOf(DecodeResponse(direct.response))
            /\ trip.host_result.value =
                  IF trip.origin = RetrieveBundle
                  THEN BundleResponse(processor.cached_reshard_bundle)
                  ELSE HealthResponse

C33_Witness ==
    /\ Len(proxyLog) = 2
    /\ proxyLog[1].origin = RetrieveBundle
    /\ proxyLog[1].host_result.value.t = "Bundle"
    /\ proxyLog[2].origin = HealthRequest
    /\ proxyLog[2].host_result.value = HealthResponse

C36_NoHangWithoutConsumer ==
    receiverClosed =>
        /\ waiters = {}
        /\ \A id \in CallIds :
              /\ calls[id] # "blocked"
              /\ calls[id] = "waiting" =>
                    /\ \E msg \in HeldMsgs : msg.response_tx = id
                    /\ ENABLED MsgDropped
              /\ (calls[id] = "done" /\ ~Accepted(id)) =>
                    \A msg \in HeldMsgs : msg.response_tx # id
              /\ (ret.id = id /\ fireCount[id] = 0) =>
                    /\ calls[id] = "done"
                    /\ ret.result = IF Accepted(id) THEN Status("Internal")
                                    ELSE Status("Unavailable")

\* with the receiver dropped, one call was refused at enqueue and a caller
\* whose message had been accepted returned Internal without a reply
C36_Witness ==
    /\ receiverClosed
    /\ ret.id # 0 /\ Accepted(ret.id) /\ fireCount[ret.id] = 0
    /\ ret.result = Status("Internal")
    /\ \E id \in CallIds : calls[id] = "done" /\ ~Accepted(id)
    /\ HeldMsgs = {}

(***************************************************************************)
(* Claims about the size of the enclave queue (SpecHost).                  *)
(***************************************************************************)
\* the calls whose message is in the queue or in its round-trip
Outstanding == {id \in CallIds : InQueue(id) \/ InFlight(id)}

\* C37: the enclave queue never holds more than ENCLAVE_QUEUE_CAPACITY = 12
\* messages, and the requests accepted into it and not yet answered are
\* never more than 13: those in the queue and the one in its round-trip
C37_QueueBounded ==
    /\ Len(queue) <= ENCLAVE_QUEUE_CAPACITY
    /\ Cardinality(Outstanding) <= ENCLAVE_QUEUE_CAPACITY + 1
    /\ \A id \in CallIds :
          (Accepted(id) /\ calls[id] = "waiting") => id \in Outstanding

\* the queue is full, one message is in its round-trip and a further
\* caller waits outside the queue
C37_Witness ==
    /\ Len(queue) = ENCLAVE_QUEUE_CAPACITY
    /\ consumer.at = "send_proxy_request"
    /\ Cardinality(Outstanding) = ENCLAVE_QUEUE_CAPACITY + 1
    /\ waiters # {}

(***************************************************************************)
(* Claims about termination of EnclaveClient::send (SpecHostFair).         *)
(***************************************************************************)
\* the caller of call id is inside EnclaveClient::send
InSend(id) == calls[id] \in {"waiting", "blocked"}

\* C35: every call of EnclaveClient::send returns: a caller that waits for
\* a slot of the full queue or for its reply does not wait forever, also
\* when other callers have gone away before their reply; a call is inside
\* send once, so each call is in the end outside send for good
C35_EverySendReturns ==
    \A id \in CallIds : <>[](~InSend(id))

\* a call that found the queue full has returned, after the reply to
\* another caller could not be delivered
C35_Witness ==
    /\ \E id \in fullSends : calls[id] = "done" /\ ret.id = id
    /\ discards # <<>>
    /\ ret.fired_by = ret.id

(***************************************************************************)
(* Claims about service names (SpecNames).                                 *)
(***************************************************************************)
\* the name is neither `liveness` nor `readiness`
UnknownService(service) == service \notin {LIVENESS, READINESS}

\* C38: a Check or a Watch for a name other than `liveness` and `readiness`
\* reports ServiceUnknown and never calls the app health check, so that no
\* message for it enters the enclave queue
C38_UnknownServiceNoProbe ==
    /\ \A id \in CheckIds :
          (checks[id].at # "idle" /\ UnknownService(checks[id].service)) =>
              /\ checks[id].at = "done"
              /\ checks[id].status = "ServiceUnknown"
              /\ checks[id].probe = None
    /\ (watch.at # "idle" /\ UnknownService(watch.service)) =>
          /\ watch.at # "app_health_check"
          /\ watch.probe = None
          /\ watch.at = "send" => watch.pending = "ServiceUnknown"
          /\ \A i \in 1..Len(emitted) :
                /\ emitted[i].status = "ServiceUnknown"
                /\ emitted[i].probe = None
    /\ queue = <<>> /\ waiters = {} /\ enqLog = <<>> /\ nextCall = 1

\* a Check for `other` was answered ServiceUnknown and a Watch for the
\* empty name has emitted ServiceUnknown twice
C38_Witness ==
    /\ checks[1].service = "other"
    /\ checks[1].status = "ServiceUnknown"
    /\ watch.service = ""
    /\ Len(emitted) = 2
    /\ emitted[2].status = "ServiceUnknown"
    /\ emitted[2].time = WATCH_STREAM_TIMEOUT_SEC

====
